---- MODULE Spec2Model ----
(***************************************************************************)
(* A model of the dual-pane SDL2 text editor of src/main.cpp: the two      *)
(* EditorState objects, the process-wide search and file-picker state and  *)
(* the event dispatch of main().  A string is a sequence of one-character  *)
(* strings; rows and columns are 0-based as in the source, so line r of a  *)
(* buffer is lines[r + 1].                                                 *)
(***************************************************************************)
EXTENDS Integers, Sequences, FiniteSets, TLC

VARIABLES
    editors,            \* EditorState editors[2]
    focused_editor,     \* int focused_editor
    search_mode,        \* bool search_mode
    search_query,       \* std::string search_query
    search_match_index, \* int search_match_index
    search_matches,     \* std::vector<Cursor> search_matches
    file_open_mode,     \* bool file_open_mode
    ctrl_x_pressed,     \* bool ctrl_x_pressed
    clipboard,          \* the SDL clipboard text, <<>> when it holds none
    disk,               \* the file system: path -> [readable, writable, content]
    file_create_mode,   \* bool file_create_mode
    dir_count,          \* dir_entries.size()
    dir_selected,       \* int dir_selected
    file_scroll_offset, \* int file_scroll_offset
    scan,               \* update_search_matches: where its loops stand (pc, r, pos)
    crashed,            \* TRUE once an uncaught std::out_of_range ended the process
    ev,                 \* the last event main() processed (history variable)
    steps               \* the number of events processed so far

vars == <<editors, focused_editor, search_mode, search_query, search_match_index,
          search_matches, file_open_mode, ctrl_x_pressed, clipboard, disk,
          file_create_mode, dir_count, dir_selected, file_scroll_offset, scan,
          crashed, ev, steps>>

----------------------------------------------------------------------------
(* Bounds of the model.                                                    *)

\* most events of one run
MaxEvents == 5
\* most lines of a buffer drawn as an input
MaxLines == 3
\* most characters of a line drawn as an input
MaxLineLen == 3
\* rows of a page, (win_h - 40) / TTF_FontHeight(font)
LinesPerPage == 1
\* most entries of a directory listing
MaxEntries == 11

\* width of one indent step, the literal "    "
IndentWidth == 4

\* most entries the picker popup shows, max_entries
MaxVisible == 10

NL == "\n"
CR == "\r"
SP == " "

----------------------------------------------------------------------------
(* std::string and std::vector primitives.                                 *)

Min(a, b) == IF a < b THEN a ELSE b
Max(a, b) == IF a > b THEN a ELSE b

\* s.substr(pos, n); the caller guarantees pos <= s.size()
substr(s, pos, n) == SubSeq(s, pos + 1, Min(Len(s), pos + n))

\* s.substr(pos)
substr_from(s, pos) == SubSeq(s, pos + 1, Len(s))

\* s.erase(pos, n)
str_erase(s, pos, n) == SubSeq(s, 1, pos) \o SubSeq(s, pos + n + 1, Len(s))

\* s.insert(pos, t) that ignores pos and appends
str_insert_at_end(s, pos, t) == s \o t

\* s.insert(pos, t)
str_insert(s, pos, t) == SubSeq(s, 1, pos) \o t \o SubSeq(s, pos + 1, Len(s))

\* v.insert(v.begin() + i, x)
vec_insert(v, i, x) == SubSeq(v, 1, i) \o <<x>> \o SubSeq(v, i + 1, Len(v))

\* v.erase(v.begin() + i, v.begin() + j)
vec_erase(v, i, j) == SubSeq(v, 1, i) \o SubSeq(v, j + 1, Len(v))

\* text.find(ch, pos): the first index >= pos holding ch, or -1 for npos
RECURSIVE str_find(_, _, _)
str_find(text, ch, pos) ==
    IF pos >= Len(text) THEN -1
    ELSE IF text[pos + 1] = ch THEN pos
    ELSE str_find(text, ch, pos + 1)

\* the indent unit "    "
Indent == [i \in 1..IndentWidth |-> SP]

----------------------------------------------------------------------------
(* struct Cursor and struct EditorState.                                   *)

Cursor(r, c) == [row |-> r, col |-> c]

\* Cursor::operator<
CursorLt(a, b) == a.row < b.row \/ (a.row = b.row /\ a.col < b.col)

\* EditorState::EditorState()
NewEditorState ==
    [lines |-> << <<>> >>, cursor |-> Cursor(0, 0), selecting |-> FALSE,
     sel_anchor |-> Cursor(0, 0), sel_active |-> Cursor(0, 0),
     scroll_offset |-> 0, file_path |-> "", dirty |-> FALSE]

\* ed.lines[r]
Line(ed, r) == ed.lines[r + 1]

\* ed.lines with line r replaced by s
SetLine(ed, r, s) == [ed.lines EXCEPT ![r + 1] = s]

\* EditorState::has_selection
has_selection(ed) == ed.selecting /\ ed.sel_anchor # ed.sel_active

\* get_selection_bounds
get_selection_bounds(ed) ==
    IF CursorLt(ed.sel_anchor, ed.sel_active)
    THEN [start |-> ed.sel_anchor, end |-> ed.sel_active]
    ELSE [start |-> ed.sel_active, end |-> ed.sel_anchor]

\* clamp_cursor
\* clamp_cursor with its four tests removed: the cursor stays where the
\* handler left it.
clamp_cursor_off(ed) == ed

clamp_cursor(ed) ==
    LET r0 == IF ed.cursor.row < 0 THEN 0 ELSE ed.cursor.row
        r1 == IF r0 >= Len(ed.lines) THEN Len(ed.lines) - 1 ELSE r0
        c0 == IF ed.cursor.col < 0 THEN 0 ELSE ed.cursor.col
        c1 == IF c0 > Len(ed.lines[r1 + 1]) THEN Len(ed.lines[r1 + 1]) ELSE c0
    IN  [ed EXCEPT !.cursor = Cursor(r1, c1)]

\* get_selected_text throws std::out_of_range: substr(pos, ..) with pos > size()
get_selected_text_throws(ed) ==
    /\ has_selection(ed)
    /\ LET b == get_selection_bounds(ed)
       IN  b.start.col > Len(Line(ed, b.start.row))

\* the lines r1 .. r2 - 1, each followed by "\n", of get_selected_text's loop
RECURSIVE middle_rows(_, _, _)
middle_rows(ed, r, stop) ==
    IF r >= stop THEN <<>>
    ELSE Line(ed, r) \o <<NL>> \o middle_rows(ed, r + 1, stop)

\* get_selected_text
\* get_selected_text without the loop over the rows between start and end
get_selected_text_ends(ed) ==
    IF ~has_selection(ed) THEN <<>>
    ELSE LET b == get_selection_bounds(ed)
             s == b.start
             e == b.end
         IN  IF s.row = e.row
             THEN substr(Line(ed, s.row), s.col, e.col - s.col)
             ELSE substr_from(Line(ed, s.row), s.col) \o <<NL>>
                  \o substr(Line(ed, e.row), 0, e.col)

get_selected_text(ed) ==
    IF ~has_selection(ed) THEN <<>>
    ELSE LET b == get_selection_bounds(ed)
             s == b.start
             e == b.end
         IN  IF s.row = e.row
             THEN substr(Line(ed, s.row), s.col, e.col - s.col)
             ELSE substr_from(Line(ed, s.row), s.col) \o <<NL>>
                  \o middle_rows(ed, s.row + 1, e.row)
                  \o substr(Line(ed, e.row), 0, e.col)

\* delete_selection throws std::out_of_range: erase(pos, ..) or substr(pos)
\* with pos > size()
delete_selection_throws(ed) ==
    /\ has_selection(ed)
    /\ LET b == get_selection_bounds(ed)
       IN  \/ b.start.col > Len(Line(ed, b.start.row))
           \/ /\ b.start.row # b.end.row
              /\ b.end.col > Len(Line(ed, b.end.row))

\* delete_selection
delete_selection(ed) ==
    IF ~has_selection(ed) THEN ed
    ELSE LET b == get_selection_bounds(ed)
             s == b.start
             e == b.end
             newlines ==
                 IF s.row = e.row
                 THEN SetLine(ed, s.row, str_erase(Line(ed, s.row), s.col, e.col - s.col))
                 ELSE vec_erase(
                          SetLine(ed, s.row,
                                  SubSeq(Line(ed, s.row), 1, s.col)
                                  \o substr_from(Line(ed, e.row), e.col)),
                          s.row + 1, e.row + 1)
         IN  [ed EXCEPT !.lines = newlines, !.cursor = s, !.sel_anchor = s,
                        !.sel_active = s, !.selecting = FALSE]

\* insert_text, from offset pos of text on: one iteration of the while loop
\* per newline, then the tail
RECURSIVE insert_text_from(_, _, _)
insert_text_from(ed, text, pos) ==
    LET next == str_find(text, NL, pos)
        row  == ed.cursor.row
        col  == ed.cursor.col
    IN  IF next # -1
        THEN LET part     == substr(text, pos, next - pos)
                 inserted == str_insert(Line(ed, row), col, part)
                 new_line == substr_from(inserted, col + Len(part))
                 head     == substr(inserted, 0, col + Len(part))
                 lines1   == vec_insert(SetLine(ed, row, head), row + 1, new_line)
             IN  insert_text_from(
                     [ed EXCEPT !.lines = lines1, !.cursor = Cursor(row + 1, 0)],
                     text, next + 1)
        ELSE [ed EXCEPT
                 !.lines = SetLine(ed, row,
                                   str_insert(Line(ed, row), col, substr_from(text, pos))),
                 !.cursor = Cursor(row, col + (Len(text) - pos))]

\* insert_text
\* insert_text without its while loop: the text goes into the cursor's line
\* whole, its newlines with it
insert_text_unsplit(ed, text) ==
    [ed EXCEPT !.lines = SetLine(ed, ed.cursor.row,
                                 str_insert(Line(ed, ed.cursor.row), ed.cursor.col, text)),
               !.cursor = Cursor(ed.cursor.row, ed.cursor.col + Len(text))]

insert_text(ed, text) == insert_text_from(ed, text, 0)

----------------------------------------------------------------------------
(* The selection updates every movement handler ends with.                 *)

\* ed.sel_active = ed.cursor; ed.selecting = true;
Extend(ed) == [ed EXCEPT !.sel_active = ed.cursor, !.selecting = TRUE]

\* ed.sel_anchor = ed.sel_active = ed.cursor; ed.selecting = false;
Collapse(ed) ==
    [ed EXCEPT !.sel_anchor = ed.cursor, !.sel_active = ed.cursor, !.selecting = FALSE]

SelUpdate(ed, shift) == IF shift THEN Extend(ed) ELSE Collapse(ed)

SetCol(ed, c) == [ed EXCEPT !.cursor = Cursor(ed.cursor.row, c)]

\* isalnum
isalnum(ch) == ch \notin {SP, NL, CR}

----------------------------------------------------------------------------
(* The handlers of main(), each as a function of the focused EditorState.  *)
(* A handler that calls delete_selection or get_selected_text is defined   *)
(* for the states where that call does not throw; the dispatch checks      *)
(* the ..._throws predicate first.                                         *)

\* SDL_TEXTINPUT (no clamp_cursor afterwards)
OnTextInput(ed, text) ==
    LET e1 == IF has_selection(ed) THEN delete_selection(ed) ELSE ed
        e2 == [e1 EXCEPT
                  !.lines = SetLine(e1, e1.cursor.row,
                                    str_insert(Line(e1, e1.cursor.row), e1.cursor.col, text)),
                  !.cursor = Cursor(e1.cursor.row, e1.cursor.col + Len(text))]
    IN  [Collapse(e2) EXCEPT !.dirty = TRUE]

\* Cmd+A
KeyCmdA(ed) ==
    LET last == Cursor(Len(ed.lines) - 1, Len(ed.lines[Len(ed.lines)]))
    IN  clamp_cursor([ed EXCEPT !.sel_anchor = Cursor(0, 0), !.sel_active = last,
                                !.cursor = last, !.selecting = TRUE])

\* Cmd+V with clipboard text clip (SDL_HasClipboardText() held)
KeyCmdV(ed, clip) ==
    LET e1 == IF has_selection(ed) THEN delete_selection(ed) ELSE ed
    IN  clamp_cursor(Collapse(insert_text(e1, clip)))

\* Cmd+Left, Cmd+Shift+Left
KeyCmdLeft(ed, shift) == clamp_cursor(SelUpdate(SetCol(ed, 0), shift))

\* Cmd+Right, Cmd+Shift+Right
KeyCmdRight(ed, shift) ==
    clamp_cursor(SelUpdate(SetCol(ed, Len(Line(ed, ed.cursor.row))), shift))

\* Ctrl+A
KeyCtrlA(ed) == clamp_cursor(Collapse(SetCol(ed, 0)))

\* Ctrl+E
KeyCtrlE(ed) == clamp_cursor(Collapse(SetCol(ed, Len(Line(ed, ed.cursor.row)))))

\* the two while loops of Ctrl+F
RECURSIVE skip_forward(_, _, _)
skip_forward(line, i, alnum) ==
    IF i < Len(line) /\ (isalnum(line[i + 1]) = alnum)
    THEN skip_forward(line, i + 1, alnum) ELSE i

\* the two while loops of Ctrl+B
RECURSIVE skip_backward(_, _, _)
skip_backward(line, i, alnum) ==
    IF i > 0 /\ (isalnum(line[i]) = alnum)
    THEN skip_backward(line, i - 1, alnum) ELSE i

\* Ctrl+F with the first loop only: the cursor stops behind the word
KeyCtrlF_one_run(ed) ==
    LET line == Line(ed, ed.cursor.row)
        i    == skip_forward(line, ed.cursor.col, TRUE)
    IN  clamp_cursor(Collapse(SetCol(ed, i)))

\* Ctrl+F
KeyCtrlF(ed) ==
    LET line == Line(ed, ed.cursor.row)
        i    == skip_forward(line, skip_forward(line, ed.cursor.col, TRUE), FALSE)
    IN  clamp_cursor(Collapse(SetCol(ed, i)))

\* Ctrl+B
KeyCtrlB(ed) ==
    LET line == Line(ed, ed.cursor.row)
        i    == skip_backward(line, skip_backward(line, ed.cursor.col, FALSE), TRUE)
    IN  clamp_cursor(Collapse(SetCol(ed, i)))

\* the character at the cursor erased, or the next line joined
delete_forward(ed) ==
    LET row == ed.cursor.row
        col == ed.cursor.col
    IN  IF col < Len(Line(ed, row))
        THEN [ed EXCEPT !.lines = SetLine(ed, row, str_erase(Line(ed, row), col, 1))]
        ELSE IF row + 1 < Len(ed.lines)
        THEN [ed EXCEPT !.lines = vec_erase(
                                      SetLine(ed, row, Line(ed, row) \o Line(ed, row + 1)),
                                      row + 1, row + 2)]
        ELSE ed

\* Ctrl+D
KeyCtrlD(ed) == clamp_cursor(Collapse(delete_forward(ed)))

\* SDLK_BACKSPACE
KeyBackspace(ed) ==
    LET row == ed.cursor.row
        col == ed.cursor.col
        e1 == IF has_selection(ed) THEN delete_selection(ed)
              ELSE IF col > 0
              THEN [ed EXCEPT !.lines = SetLine(ed, row, str_erase(Line(ed, row), col - 1, 1)),
                              !.cursor = Cursor(row, col - 1)]
              ELSE IF row > 0
              THEN [ed EXCEPT !.lines = vec_erase(
                                  SetLine(ed, row - 1, Line(ed, row - 1) \o Line(ed, row)),
                                  row, row + 1),
                              !.cursor = Cursor(row - 1, Len(Line(ed, row - 1)))]
              ELSE ed
    IN  clamp_cursor([Collapse(e1) EXCEPT !.dirty = TRUE])

\* SDLK_DELETE
KeyDelete(ed) ==
    LET e1 == IF has_selection(ed) THEN delete_selection(ed) ELSE delete_forward(ed)
    IN  clamp_cursor([Collapse(e1) EXCEPT !.dirty = TRUE])

\* SDLK_RETURN, SDLK_KP_ENTER
KeyReturn(ed) ==
    LET e1  == IF has_selection(ed) THEN delete_selection(ed) ELSE ed
        row == e1.cursor.row
        col == e1.cursor.col
        new_line == substr_from(Line(e1, row), col)
        e2  == [e1 EXCEPT
                   !.lines = vec_insert(SetLine(e1, row, substr(Line(e1, row), 0, col)),
                                        row + 1, new_line),
                   !.cursor = Cursor(row + 1, 0)]
    IN  clamp_cursor([Collapse(e2) EXCEPT !.dirty = TRUE])

\* the cursor step of SDLK_LEFT
step_left(ed) ==
    IF ed.cursor.col > 0 THEN SetCol(ed, ed.cursor.col - 1)
    ELSE IF ed.cursor.row > 0
    THEN [ed EXCEPT !.cursor = Cursor(ed.cursor.row - 1, Len(Line(ed, ed.cursor.row - 1)))]
    ELSE ed

\* the cursor step of SDLK_RIGHT
step_right(ed) ==
    IF ed.cursor.col < Len(Line(ed, ed.cursor.row)) THEN SetCol(ed, ed.cursor.col + 1)
    ELSE IF ed.cursor.row + 1 < Len(ed.lines)
    THEN [ed EXCEPT !.cursor = Cursor(ed.cursor.row + 1, 0)]
    ELSE ed

\* SDLK_LEFT
KeyLeft(ed, shift) == clamp_cursor(SelUpdate(step_left(ed), shift))

\* SDLK_RIGHT
KeyRight(ed, shift) == clamp_cursor(SelUpdate(step_right(ed), shift))

\* SDLK_UP
KeyUp(ed, shift) ==
    LET e1 == IF ed.cursor.row > 0
              THEN [ed EXCEPT !.cursor =
                       Cursor(ed.cursor.row - 1,
                              Min(ed.cursor.col, Len(Line(ed, ed.cursor.row - 1))))]
              ELSE ed
        e2 == SelUpdate(e1, shift)
        s1 == IF e2.cursor.row < e2.scroll_offset THEN e2.cursor.row ELSE e2.scroll_offset
        s2 == IF s1 > Len(e2.lines) - LinesPerPage
              THEN Max(0, Len(e2.lines) - LinesPerPage) ELSE s1
    IN  clamp_cursor([e2 EXCEPT !.scroll_offset = s2])

\* SDLK_DOWN
KeyDown(ed, shift) ==
    LET e1 == IF ed.cursor.row + 1 < Len(ed.lines)
              THEN [ed EXCEPT !.cursor =
                       Cursor(ed.cursor.row + 1,
                              Min(ed.cursor.col, Len(Line(ed, ed.cursor.row + 1))))]
              ELSE ed
        e2 == SelUpdate(e1, shift)
        s1 == IF e2.cursor.row >= e2.scroll_offset + LinesPerPage
              THEN e2.cursor.row - LinesPerPage + 1 ELSE e2.scroll_offset
        s2 == IF s1 < 0 THEN 0 ELSE s1
    IN  clamp_cursor([e2 EXCEPT !.scroll_offset = s2])

\* ed.lines[r].substr(0, 4) == "    "
\* the test of lines 764 and 769 on the first character alone
starts_with_space(line) == substr(line, 0, 1) = <<SP>>

starts_with_indent(line) == substr(line, 0, IndentWidth) = Indent

\* the for loop of Shift+Tab with a selection: rows r .. stop unindented
RECURSIVE unindent_rows(_, _, _)
unindent_rows(lines, r, stop) ==
    IF r > stop THEN lines
    ELSE unindent_rows(
             IF starts_with_indent(lines[r + 1])
             THEN [lines EXCEPT ![r + 1] = str_erase(lines[r + 1], 0, IndentWidth)]
             ELSE lines,
             r + 1, stop)

\* the for loop of Tab with a selection: rows r .. stop indented
RECURSIVE indent_rows(_, _, _)
indent_rows(lines, r, stop) ==
    IF r > stop THEN lines
    ELSE indent_rows([lines EXCEPT ![r + 1] = str_insert(lines[r + 1], 0, Indent)],
                     r + 1, stop)

\* SDLK_TAB with shift
KeyShiftTab(ed) ==
    LET row == ed.cursor.row
        col == ed.cursor.col
        e1 == IF has_selection(ed)
              THEN LET b == get_selection_bounds(ed)
                   IN  [ed EXCEPT !.lines = unindent_rows(ed.lines, b.start.row, b.end.row)]
              ELSE IF starts_with_indent(Line(ed, row))
              THEN [ed EXCEPT
                       !.lines = SetLine(ed, row, str_erase(Line(ed, row), 0, IndentWidth)),
                       !.cursor = Cursor(row, IF col >= IndentWidth
                                              THEN col - IndentWidth ELSE 0)]
              ELSE ed
    IN  clamp_cursor([e1 EXCEPT !.dirty = TRUE])

\* SDLK_TAB without shift
\* KeyTab that leaves sel_active where it was (line 787 dropped)
KeyTab_active_kept(ed) ==
    LET row == ed.cursor.row
        col == ed.cursor.col
        e1 == IF has_selection(ed)
              THEN LET b == get_selection_bounds(ed)
                   IN  [ed EXCEPT
                           !.lines = indent_rows(ed.lines, b.start.row, b.end.row),
                           !.cursor = Cursor(row, col + IndentWidth),
                           !.sel_anchor = Cursor(ed.sel_anchor.row,
                                                 ed.sel_anchor.col + IndentWidth)]
              ELSE [ed EXCEPT
                       !.lines = SetLine(ed, row, str_insert(Line(ed, row), col, Indent)),
                       !.cursor = Cursor(row, col + IndentWidth)]
    IN  clamp_cursor([e1 EXCEPT !.dirty = TRUE])

\* KeyTab that indents the cursor's line at column 0 when nothing is selected
KeyTab_at_line_start(ed) ==
    LET row == ed.cursor.row
        col == ed.cursor.col
        e1 == IF has_selection(ed)
              THEN LET b == get_selection_bounds(ed)
                   IN  [ed EXCEPT
                           !.lines = indent_rows(ed.lines, b.start.row, b.end.row),
                           !.cursor = Cursor(row, col + IndentWidth),
                           !.sel_anchor = Cursor(ed.sel_anchor.row,
                                                 ed.sel_anchor.col + IndentWidth),
                           !.sel_active = Cursor(ed.sel_active.row,
                                                 ed.sel_active.col + IndentWidth)]
              ELSE [ed EXCEPT
                       !.lines = SetLine(ed, row, str_insert(Line(ed, row), 0, Indent)),
                       !.cursor = Cursor(row, col + IndentWidth)]
    IN  clamp_cursor([e1 EXCEPT !.dirty = TRUE])

KeyTab(ed) ==
    LET row == ed.cursor.row
        col == ed.cursor.col
        e1 == IF has_selection(ed)
              THEN LET b == get_selection_bounds(ed)
                   IN  [ed EXCEPT
                           !.lines = indent_rows(ed.lines, b.start.row, b.end.row),
                           !.cursor = Cursor(row, col + IndentWidth),
                           !.sel_anchor = Cursor(ed.sel_anchor.row,
                                                 ed.sel_anchor.col + IndentWidth),
                           !.sel_active = Cursor(ed.sel_active.row,
                                                 ed.sel_active.col + IndentWidth)]
              ELSE [ed EXCEPT
                       !.lines = SetLine(ed, row, str_insert(Line(ed, row), col, Indent)),
                       !.cursor = Cursor(row, col + IndentWidth)]
    IN  clamp_cursor([e1 EXCEPT !.dirty = TRUE])

\* clamp_scroll
clamp_scroll(ed) ==
    LET s0 == IF ed.scroll_offset < 0 THEN 0 ELSE ed.scroll_offset
        s1 == IF s0 > Len(ed.lines) - LinesPerPage
              THEN Max(0, Len(ed.lines) - LinesPerPage) ELSE s0
        s2 == IF ed.cursor.row < s1 THEN ed.cursor.row ELSE s1
        s3 == IF ed.cursor.row >= s2 + LinesPerPage
              THEN ed.cursor.row - LinesPerPage + 1 ELSE s2
    IN  [ed EXCEPT !.scroll_offset = s3]

\* std::max(1, lines_per_page / 2)
HalfPage == Max(1, LinesPerPage \div 2)

\* Ctrl+G (continue: no clamp_cursor)
KeyCtrlG(ed) ==
    LET s0 == Min(Len(ed.lines) - LinesPerPage, ed.scroll_offset + HalfPage)
        s1 == IF s0 < 0 THEN 0 ELSE s0
    IN  clamp_scroll([ed EXCEPT !.scroll_offset = s1])

\* Ctrl+H (continue: no clamp_cursor)
KeyCtrlH(ed) ==
    clamp_scroll([ed EXCEPT !.scroll_offset = Max(0, ed.scroll_offset - HalfPage)])

\* SDL_MOUSEBUTTONDOWN with my > 30, landing on screen row `row` and column col
OnMouseDown(ed, row, col) ==
    LET r0 == IF row < 0 THEN 0 ELSE row
        r1 == IF r0 >= Len(ed.lines) THEN Len(ed.lines) - 1 ELSE r0
        c  == Cursor(r1, col)
    IN  [ed EXCEPT !.cursor = c, !.sel_anchor = c, !.sel_active = c, !.selecting = TRUE]

----------------------------------------------------------------------------
(* Files and search.                                                       *)

\* the getline loop without line 163: a trailing '\r' stays in the line
RECURSIVE getlines_keep_cr(_, _)
getlines_keep_cr(content, pos) ==
    LET next == str_find(content, NL, pos)
    IN  IF pos >= Len(content) THEN <<>>
        ELSE IF next = -1 THEN <<substr_from(content, pos)>>
        ELSE <<substr(content, pos, next - pos)>> \o getlines_keep_cr(content, next + 1)

\* the lines std::getline reads from offset pos of a file's content on, each
\* with one trailing '\r' removed
RECURSIVE getlines(_, _)
getlines(content, pos) ==
    LET strip(l) == IF Len(l) > 0 /\ l[Len(l)] = CR THEN SubSeq(l, 1, Len(l) - 1) ELSE l
        next     == str_find(content, NL, pos)
    IN  IF pos >= Len(content) THEN <<>>
        ELSE IF next = -1 THEN <<strip(substr_from(content, pos))>>
        ELSE <<strip(substr(content, pos, next - pos))>> \o getlines(content, next + 1)

\* load_file, given the file at path: [readable, content]
\* load_file without line 166: an empty file leaves an empty vector.
load_file_no_pad(ed, path, file) ==
    IF ~file.readable THEN ed
    ELSE [ed EXCEPT !.lines = getlines(file.content, 0),
                    !.cursor = Cursor(0, 0), !.sel_anchor = Cursor(0, 0),
                    !.sel_active = Cursor(0, 0), !.selecting = FALSE,
                    !.file_path = path, !.dirty = FALSE]

\* load_file without line 171: the dirty flag stays as it was
load_file_dirty_kept(ed, path, file) ==
    IF ~file.readable THEN ed
    ELSE LET ls == getlines(file.content, 0)
         IN  [ed EXCEPT !.lines = IF ls = <<>> THEN << <<>> >> ELSE ls,
                        !.cursor = Cursor(0, 0), !.sel_anchor = Cursor(0, 0),
                        !.sel_active = Cursor(0, 0), !.selecting = FALSE,
                        !.file_path = path]

\* load_file with line 159 before the test of line 158: the buffer is
\* cleared although the file did not open
load_file_clear_first(ed, path, file) ==
    IF ~file.readable THEN [ed EXCEPT !.lines = << <<>> >>]
    ELSE LET ls == getlines(file.content, 0)
         IN  [ed EXCEPT !.lines = IF ls = <<>> THEN << <<>> >> ELSE ls,
                        !.cursor = Cursor(0, 0), !.sel_anchor = Cursor(0, 0),
                        !.sel_active = Cursor(0, 0), !.selecting = FALSE,
                        !.file_path = path, !.dirty = FALSE]

load_file(ed, path, file) ==
    IF ~file.readable THEN ed
    ELSE LET ls == getlines(file.content, 0)
         IN  [ed EXCEPT !.lines = IF ls = <<>> THEN << <<>> >> ELSE ls,
                        !.cursor = Cursor(0, 0), !.sel_anchor = Cursor(0, 0),
                        !.sel_active = Cursor(0, 0), !.selecting = FALSE,
                        !.file_path = path, !.dirty = FALSE]

\* the loop of save_file without the test of line 184: a "\n" after every line
RECURSIVE joined_terminated(_, _)
joined_terminated(lines, i) ==
    IF i >= Len(lines) THEN <<>>
    ELSE lines[i + 1] \o <<NL>> \o joined_terminated(lines, i + 1)

\* what save_file streams into the file: the lines from i on, joined by "\n"
RECURSIVE joined(_, _)
joined(lines, i) ==
    IF i >= Len(lines) THEN <<>>
    ELSE lines[i + 1] \o (IF i + 1 < Len(lines) THEN <<NL>> ELSE <<>>)
         \o joined(lines, i + 1)

\* the scan with pos += 1 after a match in place of pos += query.size()
RECURSIVE line_matches_overlapping(_, _, _, _)
line_matches_overlapping(line, query, r, pos) ==
    IF pos + Len(query) > Len(line) THEN <<>>
    ELSE IF substr(line, pos, Len(query)) = query
    THEN <<Cursor(r, pos)>> \o line_matches_overlapping(line, query, r, pos + 1)
    ELSE line_matches_overlapping(line, query, r, pos + 1)

\* the scan of one line by update_search_matches, from column pos on
RECURSIVE line_matches(_, _, _, _)
line_matches(line, query, r, pos) ==
    IF pos + Len(query) > Len(line) THEN <<>>
    ELSE IF substr(line, pos, Len(query)) = query
    THEN <<Cursor(r, pos)>> \o line_matches(line, query, r, pos + Len(query))
    ELSE line_matches(line, query, r, pos + 1)

\* update_search_matches: the new value of search_matches
RECURSIVE matches_from(_, _, _)
matches_from(lines, query, r) ==
    IF r >= Len(lines) THEN <<>>
    ELSE line_matches(lines[r + 1], query, r, 0) \o matches_from(lines, query, r + 1)

\* without the early return for an empty query: the empty string is found
\* at the start of every line
update_search_matches_unguarded(ed, query) ==
    IF query = <<>> THEN [r \in 1..Len(ed.lines) |-> Cursor(r - 1, 0)]
    ELSE matches_from(ed.lines, query, 0)

update_search_matches(ed, query) ==
    IF query = <<>> THEN <<>> ELSE matches_from(ed.lines, query, 0)

\* jump_to_search_match without its last two lines: the scroll offset stays
jump_to_search_match_no_scroll(ed, matches, idx) ==
    IF matches = <<>> \/ idx < 0 \/ idx >= Len(matches) THEN ed
    ELSE LET c == matches[idx + 1]
         IN  [ed EXCEPT !.cursor = c, !.sel_anchor = c, !.sel_active = c,
                        !.selecting = FALSE]

\* jump_to_search_match
jump_to_search_match(ed, matches, idx) ==
    IF matches = <<>> \/ idx < 0 \/ idx >= Len(matches) THEN ed
    ELSE LET c == matches[idx + 1]
             s == IF c.row < ed.scroll_offset THEN c.row
                  ELSE IF c.row >= ed.scroll_offset + LinesPerPage
                  THEN c.row - LinesPerPage + 1
                  ELSE ed.scroll_offset
         IN  [ed EXCEPT !.cursor = c, !.sel_anchor = c, !.sel_active = c,
                        !.selecting = FALSE, !.scroll_offset = s]

----------------------------------------------------------------------------
(* The inputs the environment may send.                                    *)

Panes == {0, 1}

\* the texts of an SDL_TEXTINPUT event
TypedTexts == {<<"a">>, <<SP>>}

\* the file entries the picker can list
Paths == {"empty", "text", "locked"}

File(r, w, c) == [readable |-> r, writable |-> w, content |-> c]

\* the file system at start
InitDisk ==
    [p \in Paths |->
        CASE p = "empty"  -> File(TRUE, TRUE, <<>>)
          [] p = "text"   -> File(TRUE, TRUE, <<"a", CR, NL, SP, NL>>)
          [] p = "locked" -> File(FALSE, FALSE, <<"a">>)]

Ev(k, t) == [kind |-> k, text |-> t]

\* update_search_matches is not running
ScanIdle == [pc |-> "idle", r |-> 0, pos |-> 0]

\* the picker state while the picker has not been opened yet
PickerClosed ==
    /\ file_create_mode = FALSE
    /\ dir_count = 0
    /\ dir_selected = 0
    /\ file_scroll_offset = 0

----------------------------------------------------------------------------
(* The state after construction (main(), before the event loop).           *)

Init ==
    /\ editors = [p \in Panes |-> NewEditorState]
    /\ focused_editor = 0
    /\ search_mode = FALSE
    /\ search_query = <<>>
    /\ search_match_index = -1
    /\ search_matches = <<>>
    /\ file_open_mode = FALSE
    /\ ctrl_x_pressed = FALSE
    /\ clipboard = <<>>
    /\ disk = InitDisk
    /\ PickerClosed
    /\ scan = ScanIdle
    /\ crashed = FALSE
    /\ ev = Ev("init", <<>>)
    /\ steps = 0

----------------------------------------------------------------------------
(* The event dispatch of main(): one action per event.                     *)

Ed == editors[focused_editor]

\* the process runs and the run has events left
Running == ~crashed /\ steps < MaxEvents

\* one more event is processed: it is the last event from now on
Record(k, t) ==
    /\ steps' = steps + 1
    /\ ev' = Ev(k, t)

search_vars == <<search_mode, search_query, search_match_index, search_matches>>

picker_vars == <<file_create_mode, dir_count, dir_selected, file_scroll_offset>>

\* the handler leaves the focused pane as ed1
\* a write through ed that lands in both elements of editors
Put_both(ed1, k, t) ==
    /\ editors' = [p \in Panes |-> ed1]
    /\ Record(k, t)

Put(ed1, k, t) ==
    /\ editors' = [editors EXCEPT ![focused_editor] = ed1]
    /\ Record(k, t)

\* an uncaught exception ends the process
Crash(k) ==
    /\ crashed' = TRUE
    /\ Record(k, <<>>)
    /\ UNCHANGED <<editors, focused_editor, search_vars, file_open_mode,
                   ctrl_x_pressed, clipboard, disk, picker_vars, scan>>

\* an SDL_KEYDOWN event reaches the editing keys
EditKeys == Running /\ ~file_open_mode /\ ~search_mode

\* what a key outside the ctrl branch leaves alone
key_frame == <<focused_editor, search_vars, file_open_mode, ctrl_x_pressed,
               clipboard, disk, crashed, picker_vars, scan>>

\* what a key of the ctrl branch leaves alone (it resets ctrl_x_pressed)
ctrl_frame == <<focused_editor, search_vars, file_open_mode, clipboard, disk, crashed, picker_vars, scan>>

\* SDL_TEXTINPUT outside file-open mode (search mode does not intercept it:
\* the search branch sits inside the SDL_KEYDOWN branch)
TextInput(t) ==
    /\ Running /\ ~file_open_mode
    /\ IF delete_selection_throws(Ed) THEN Crash("text")
       ELSE Put(OnTextInput(Ed, t), "text", t) /\ UNCHANGED key_frame

\* Cmd+A
CmdA ==
    /\ EditKeys
    /\ Put(KeyCmdA(Ed), "cmd_a", <<>>)
    /\ clipboard' = get_selected_text(KeyCmdA(Ed))
    /\ UNCHANGED <<focused_editor, search_vars, file_open_mode, ctrl_x_pressed,
                   disk, crashed, picker_vars, scan>>

\* Cmd+C
CmdC ==
    /\ EditKeys
    /\ IF get_selected_text_throws(Ed) THEN Crash("cmd_c")
       ELSE /\ Put(clamp_cursor(Ed), "cmd_c", <<>>)
            /\ clipboard' = IF has_selection(Ed) THEN get_selected_text(Ed) ELSE clipboard
            /\ UNCHANGED <<focused_editor, search_vars, file_open_mode, ctrl_x_pressed,
                           disk, crashed, picker_vars, scan>>

\* Cmd+V
CmdV ==
    /\ EditKeys
    /\ IF clipboard = <<>> THEN Put(clamp_cursor(Ed), "cmd_v", <<>>) /\ UNCHANGED key_frame
       ELSE IF delete_selection_throws(Ed) THEN Crash("cmd_v")
       ELSE Put(KeyCmdV(Ed, clipboard), "cmd_v", clipboard) /\ UNCHANGED key_frame

\* Cmd+S
CmdS ==
    /\ EditKeys
    /\ Record("cmd_s", <<>>)
    /\ IF Ed.file_path # "" /\ disk[Ed.file_path].writable
       THEN /\ disk' = [disk EXCEPT ![Ed.file_path].content = joined(Ed.lines, 0)]
            /\ editors' = [editors EXCEPT ![focused_editor].dirty = FALSE]
       ELSE UNCHANGED <<disk, editors>>
    /\ UNCHANGED <<focused_editor, search_vars, file_open_mode, ctrl_x_pressed,
                   clipboard, crashed, picker_vars, scan>>

\* Cmd+1, Cmd+2: ed still names the pane focused before
CmdFocus(p) ==
    /\ EditKeys
    /\ focused_editor' = p
    /\ Put(clamp_cursor(Ed), "cmd_focus", <<>>)
    /\ UNCHANGED <<search_vars, file_open_mode, ctrl_x_pressed, clipboard, disk, crashed, picker_vars, scan>>

\* Cmd+Left, Cmd+Right, with or without shift
CmdLeft(shift) ==
    EditKeys /\ Put(KeyCmdLeft(Ed, shift), "cmd_left", <<>>) /\ UNCHANGED key_frame

CmdRight(shift) ==
    EditKeys /\ Put(KeyCmdRight(Ed, shift), "cmd_right", <<>>) /\ UNCHANGED key_frame

\* a key with no binding (Cmd+=, F1, a letter): only clamp_cursor runs
OtherKey ==
    EditKeys /\ Put(clamp_cursor(Ed), "other", <<>>) /\ UNCHANGED key_frame

\* Ctrl+S: start incremental search (continue: ctrl_x_pressed is not reset)
CtrlS ==
    /\ EditKeys
    /\ search_mode' = TRUE
    /\ search_query' = <<>>
    /\ search_matches' = update_search_matches(Ed, <<>>)
    /\ search_match_index' = -1
    /\ Record("ctrl_s", <<>>)
    /\ UNCHANGED <<editors, focused_editor, file_open_mode, ctrl_x_pressed,
                   clipboard, disk, crashed, picker_vars, scan>>

\* Ctrl+X
CtrlX ==
    /\ EditKeys
    /\ ctrl_x_pressed' = TRUE
    /\ Put(clamp_cursor(Ed), "ctrl_x", <<>>)
    /\ UNCHANGED ctrl_frame

\* Ctrl+F: after Ctrl+X it opens the file picker on the current directory
\* (its entries are ".." and the files of the disk), and in either case the
\* switch below runs its case SDLK_f (forward word)
CtrlF ==
    /\ EditKeys
    /\ ctrl_x_pressed' = FALSE
    /\ file_open_mode' = ctrl_x_pressed
    /\ IF ctrl_x_pressed
       THEN /\ dir_count' = 1 + Cardinality(Paths)
            /\ dir_selected' = 0
            /\ file_scroll_offset' = 0
            /\ UNCHANGED file_create_mode
       ELSE UNCHANGED picker_vars
    /\ Put(KeyCtrlF(Ed), "ctrl_f", <<>>)
    /\ UNCHANGED <<focused_editor, search_vars, clipboard, disk, crashed, scan>>

\* Ctrl+G, Ctrl+H
CtrlG ==
    /\ EditKeys /\ ctrl_x_pressed' = FALSE
    /\ Put(KeyCtrlG(Ed), "ctrl_g", <<>>) /\ UNCHANGED ctrl_frame

CtrlH ==
    /\ EditKeys /\ ctrl_x_pressed' = FALSE
    /\ Put(KeyCtrlH(Ed), "ctrl_h", <<>>) /\ UNCHANGED ctrl_frame

\* Ctrl+A, Ctrl+E, Ctrl+B, Ctrl+D
CtrlA ==
    /\ EditKeys /\ ctrl_x_pressed' = FALSE
    /\ Put(KeyCtrlA(Ed), "ctrl_a", <<>>) /\ UNCHANGED ctrl_frame

CtrlE ==
    /\ EditKeys /\ ctrl_x_pressed' = FALSE
    /\ Put(KeyCtrlE(Ed), "ctrl_e", <<>>) /\ UNCHANGED ctrl_frame

CtrlB ==
    /\ EditKeys /\ ctrl_x_pressed' = FALSE
    /\ Put(KeyCtrlB(Ed), "ctrl_b", <<>>) /\ UNCHANGED ctrl_frame

CtrlD ==
    /\ EditKeys /\ ctrl_x_pressed' = FALSE
    /\ Put(KeyCtrlD(Ed), "ctrl_d", <<>>) /\ UNCHANGED ctrl_frame

\* a ctrl key with no binding
CtrlOther ==
    /\ EditKeys /\ ctrl_x_pressed' = FALSE
    /\ Put(clamp_cursor(Ed), "ctrl_other", <<>>) /\ UNCHANGED ctrl_frame

\* Backspace, Delete, Return
Backspace ==
    /\ EditKeys
    /\ IF delete_selection_throws(Ed) THEN Crash("backspace")
       ELSE Put(KeyBackspace(Ed), "backspace", <<>>) /\ UNCHANGED key_frame

Delete ==
    /\ EditKeys
    /\ IF delete_selection_throws(Ed) THEN Crash("delete")
       ELSE Put(KeyDelete(Ed), "delete", <<>>) /\ UNCHANGED key_frame

Return ==
    /\ EditKeys
    /\ IF delete_selection_throws(Ed) THEN Crash("return")
       ELSE Put(KeyReturn(Ed), "return", <<>>) /\ UNCHANGED key_frame

\* the arrow keys, with or without shift
Left(shift) ==
    EditKeys /\ Put(KeyLeft(Ed, shift), "left", <<>>) /\ UNCHANGED key_frame

Right(shift) ==
    EditKeys /\ Put(KeyRight(Ed, shift), "right", <<>>) /\ UNCHANGED key_frame

Up(shift) ==
    EditKeys /\ Put(KeyUp(Ed, shift), "up", <<>>) /\ UNCHANGED key_frame

Down(shift) ==
    EditKeys /\ Put(KeyDown(Ed, shift), "down", <<>>) /\ UNCHANGED key_frame

\* Tab, Shift+Tab
Tab ==
    EditKeys /\ Put(KeyTab(Ed), "tab", <<>>) /\ UNCHANGED key_frame

ShiftTab ==
    EditKeys /\ Put(KeyShiftTab(Ed), "shift_tab", <<>>) /\ UNCHANGED key_frame

\* SDL_MOUSEBUTTONDOWN below the file-name bar, in pane p, on screen row
\* `row`, at the column the text widths give
MouseDown(p, row) ==
    /\ Running /\ ~file_open_mode
    /\ focused_editor' = p
    /\ \E col \in 0..Len(Line(editors[p], OnMouseDown(editors[p], row, 0).cursor.row)) :
           editors' = [editors EXCEPT ![p] = OnMouseDown(editors[p], row, col)]
    /\ Record("mouse", <<>>)
    /\ UNCHANGED <<search_vars, file_open_mode, ctrl_x_pressed, clipboard, disk, crashed, picker_vars, scan>>

----------------------------------------------------------------------------
(* SDL_KEYDOWN in incremental search mode: every key is consumed here.     *)
(* (The SDL_TEXTINPUT branch of that block is unreachable: the block is    *)
(* entered only for SDL_KEYDOWN.)                                          *)

SearchKeys == Running /\ ~file_open_mode /\ search_mode

search_frame == <<focused_editor, file_open_mode, ctrl_x_pressed, clipboard, disk, crashed, picker_vars, scan>>

\* Escape, Return
SearchLeave ==
    /\ SearchKeys
    /\ search_mode' = FALSE
    /\ search_query' = <<>>
    /\ search_matches' = <<>>
    /\ search_match_index' = -1
    /\ Record("search_leave", <<>>)
    /\ UNCHANGED <<editors, search_frame>>

\* Backspace
SearchBackspace ==
    /\ SearchKeys
    /\ Record("search_backspace", <<>>)
    /\ IF search_query # <<>>
       THEN LET q  == SubSeq(search_query, 1, Len(search_query) - 1)
                ms == update_search_matches(Ed, q)
                ix == IF ms # <<>> THEN 0 ELSE -1
            IN  /\ search_query' = q
                /\ search_matches' = ms
                /\ search_match_index' = ix
                /\ editors' = [editors EXCEPT
                                  ![focused_editor] = jump_to_search_match(Ed, ms, ix)]
                /\ UNCHANGED search_mode
       ELSE UNCHANGED <<editors, search_vars>>
    /\ UNCHANGED search_frame

\* Ctrl+S and Ctrl+R that stop at the ends of the list in place of wrapping
SearchAdvance_no_wrap(step) ==
    /\ SearchKeys
    /\ Record(IF step = 1 THEN "search_next" ELSE "search_prev", <<>>)
    /\ IF search_matches # <<>>
       THEN LET ix == Max(0, Min(Len(search_matches) - 1, search_match_index + step))
            IN  /\ search_match_index' = ix
                /\ editors' = [editors EXCEPT
                                  ![focused_editor] =
                                      jump_to_search_match(Ed, search_matches, ix)]
                /\ UNCHANGED <<search_mode, search_query, search_matches>>
       ELSE UNCHANGED <<editors, search_vars>>
    /\ UNCHANGED search_frame

\* Ctrl+S (next match) and Ctrl+R (previous match): step is 1 or -1
SearchAdvance(step) ==
    /\ SearchKeys
    /\ Record(IF step = 1 THEN "search_next" ELSE "search_prev", <<>>)
    /\ IF search_matches # <<>>
       THEN LET ix == (search_match_index + step + Len(search_matches))
                          % Len(search_matches)
            IN  /\ search_match_index' = ix
                /\ editors' = [editors EXCEPT
                                  ![focused_editor] =
                                      jump_to_search_match(Ed, search_matches, ix)]
                /\ UNCHANGED <<search_mode, search_query, search_matches>>
       ELSE UNCHANGED <<editors, search_vars>>
    /\ UNCHANGED search_frame

\* any other key
SearchOtherKey ==
    /\ SearchKeys
    /\ Record("search_other", <<>>)
    /\ UNCHANGED <<editors, search_vars, search_frame>>

----------------------------------------------------------------------------
(* Events in file-open mode: the picker consumes every event.              *)

PickerKeys == Running /\ file_open_mode

\* the entry list has the keyboard, or the new-directory prompt has it
ListKeys == PickerKeys /\ ~file_create_mode
CreateKeys == PickerKeys /\ file_create_mode

\* what an event of the picker leaves alone
picker_frame == <<editors, focused_editor, search_vars, ctrl_x_pressed, clipboard,
                  disk, crashed, scan>>

\* Escape
PickerEscape ==
    /\ ListKeys
    /\ file_open_mode' = FALSE
    /\ dir_count' = 0
    /\ file_scroll_offset' = 0
    /\ Record("picker_escape", <<>>)
    /\ UNCHANGED <<picker_frame, file_create_mode, dir_selected>>

\* SDL_TEXTINPUT, or Backspace: the filter changes (or the parent directory
\* is entered) and the directory is listed again
PickerFilter ==
    /\ ListKeys
    /\ \E n \in 0..MaxEntries : dir_count' = n
    /\ dir_selected' = 0
    /\ file_scroll_offset' = 0
    /\ Record("picker_filter", <<>>)
    /\ UNCHANGED <<picker_frame, file_open_mode, file_create_mode>>

\* Down
PickerDown ==
    /\ ListKeys
    /\ Record("picker_down", <<>>)
    /\ IF dir_count > 0
       THEN LET sel == (dir_selected + 1) % dir_count
            IN  /\ dir_selected' = sel
                /\ file_scroll_offset' = IF sel >= file_scroll_offset + MaxVisible
                                         THEN sel - MaxVisible + 1
                                         ELSE file_scroll_offset
       ELSE UNCHANGED <<dir_selected, file_scroll_offset>>
    /\ UNCHANGED <<picker_frame, file_open_mode, file_create_mode, dir_count>>

\* Up
PickerUp ==
    /\ ListKeys
    /\ Record("picker_up", <<>>)
    /\ IF dir_count > 0
       THEN LET sel == (dir_selected - 1 + dir_count) % dir_count
            IN  /\ dir_selected' = sel
                /\ file_scroll_offset' = IF sel < file_scroll_offset THEN sel
                                         ELSE file_scroll_offset
       ELSE UNCHANGED <<dir_selected, file_scroll_offset>>
    /\ UNCHANGED <<picker_frame, file_open_mode, file_create_mode, dir_count>>

\* Return on a directory entry: the directory is entered and listed
PickerEnterDir ==
    /\ ListKeys
    /\ dir_count > 0
    /\ \E n \in 0..MaxEntries : dir_count' = n
    /\ dir_selected' = 0
    /\ file_scroll_offset' = 0
    /\ Record("picker_dir", <<>>)
    /\ UNCHANGED <<picker_frame, file_open_mode, file_create_mode>>

\* Return on the file entry path
PickerOpen(path) ==
    /\ ListKeys
    /\ dir_count > 0
    /\ file_open_mode' = FALSE
    /\ dir_count' = 0
    /\ file_scroll_offset' = 0
    /\ Put(load_file(Ed, path, disk[path]), "load", <<path>>)
    /\ UNCHANGED <<focused_editor, search_vars, ctrl_x_pressed, clipboard, disk, crashed,
                   file_create_mode, dir_selected, scan>>

\* Ctrl+N: the new-directory prompt opens
PickerCtrlN ==
    /\ ListKeys
    /\ file_create_mode' = TRUE
    /\ Record("picker_ctrl_n", <<>>)
    /\ UNCHANGED <<picker_frame, file_open_mode, dir_count, dir_selected,
                   file_scroll_offset>>

\* Escape in the new-directory prompt closing the picker as well
CreateEscape_closes_picker ==
    /\ CreateKeys
    /\ file_create_mode' = FALSE
    /\ file_open_mode' = FALSE
    /\ Record("create_escape", <<>>)
    /\ UNCHANGED <<picker_frame, dir_count, dir_selected, file_scroll_offset>>

\* Escape in the new-directory prompt: the prompt closes, the picker stays
CreateEscape ==
    /\ CreateKeys
    /\ file_create_mode' = FALSE
    /\ Record("create_escape", <<>>)
    /\ UNCHANGED <<picker_frame, file_open_mode, dir_count, dir_selected,
                   file_scroll_offset>>

\* Return in the new-directory prompt, the directory created: the listing is
\* taken again and holds the new directory unless the filter hides it
CreateReturn ==
    /\ CreateKeys
    /\ file_create_mode' = FALSE
    /\ \E n \in {dir_count, Min(dir_count + 1, MaxEntries)} : dir_count' = n
    /\ Record("create_return", <<>>)
    /\ UNCHANGED <<picker_frame, file_open_mode, dir_selected, file_scroll_offset>>

\* any other event of the picker or of the prompt (a mouse click, a key
\* with no binding, Return with nothing listed, the name typed in the prompt)
PickerOther ==
    /\ PickerKeys
    /\ Record("picker_other", <<>>)
    /\ UNCHANGED <<picker_frame, file_open_mode, picker_vars>>

----------------------------------------------------------------------------

Next ==
    \/ \E t \in TypedTexts : TextInput(t)
    \/ CmdA \/ CmdC \/ CmdV \/ CmdS
    \/ \E p \in Panes : CmdFocus(p)
    \/ \E shift \in BOOLEAN : CmdLeft(shift)
    \/ \E shift \in BOOLEAN : CmdRight(shift)
    \/ OtherKey
    \/ CtrlS \/ CtrlX \/ CtrlF \/ CtrlG \/ CtrlH
    \/ CtrlA \/ CtrlE \/ CtrlB \/ CtrlD \/ CtrlOther
    \/ Backspace \/ Delete \/ Return
    \/ \E shift \in BOOLEAN : Left(shift)
    \/ \E shift \in BOOLEAN : Right(shift)
    \/ \E shift \in BOOLEAN : Up(shift)
    \/ \E shift \in BOOLEAN : Down(shift)
    \/ Tab \/ ShiftTab
    \/ \E p \in Panes, row \in 0..LinesPerPage : MouseDown(p, row)
    \/ SearchLeave \/ SearchBackspace
    \/ \E step \in {1, -1} : SearchAdvance(step)
    \/ SearchOtherKey
    \/ PickerEscape
    \/ PickerFilter \/ PickerDown \/ PickerUp \/ PickerEnterDir
    \/ \E path \in Paths : PickerOpen(path)
    \/ PickerCtrlN \/ CreateEscape \/ CreateReturn
    \/ PickerOther

Spec == Init /\ [][Next]_vars

----------------------------------------------------------------------------
(* One handler applied to any buffer: the specifications below start in    *)
(* any state of pane 0 that typing, Return and the (shifted) arrow keys    *)
(* reach, each character of the buffer distinct, with one event to go.     *)

Letters == <<"a", "b", "c", "d", "e", "f", "g", "h", "i", "j", "k", "l", "m",
             "n", "o", "p", "q", "r", "s", "t", "u", "v", "w", "x", "y", "z">>

\* how many lines, and how long each is
Shapes == UNION {[1..k -> 0..MaxLineLen] : k \in 1..MaxLines}

\* the buffer of that shape: "abc", "de", ...
BufferOf(shape) ==
    [r \in 1..Len(shape) |-> [c \in 1..shape[r] |-> Letters[(r - 1) * MaxLineLen + c]]]

\* the valid positions of a buffer
Positions(lines) ==
    {Cursor(r, c) : r \in 0..(Len(lines) - 1), c \in 0..MaxLineLen}
        \cap {pos \in [row : 0..(Len(lines) - 1), col : 0..MaxLineLen] :
                 pos.col <= Len(lines[pos.row + 1])}

\* the clipboard texts drawn as inputs: zero, one and two newlines
ClipTexts ==
    {<<"X">>, <<"X", "Y">>, <<NL>>, <<"X", NL, "Y">>, <<NL, "X", NL>>,
     <<"X", "Y", NL, NL, "Z">>}

\* pane 0 holds the buffer lines with the caret at cur; a selection from anc
\* is engaged when sel
InputState(lines, cur, anc, sel, clip) ==
    /\ editors = [p \in Panes |->
                     IF p = 0
                     THEN [NewEditorState EXCEPT
                              !.lines = lines, !.cursor = cur, !.sel_active = cur,
                              !.sel_anchor = anc, !.selecting = sel,
                              !.dirty = (lines # << <<>> >>)]
                     ELSE NewEditorState]
    /\ focused_editor = 0
    /\ search_mode = FALSE
    /\ search_query = <<>>
    /\ search_match_index = -1
    /\ search_matches = <<>>
    /\ file_open_mode = FALSE
    /\ ctrl_x_pressed = FALSE
    /\ clipboard = clip
    /\ disk = InitDisk
    /\ PickerClosed
    /\ scan = ScanIdle
    /\ crashed = FALSE
    /\ ev = Ev("init", <<>>)
    /\ steps = MaxEvents - 1

\* any buffer, caret and selection, with the clipboard empty
InitBuffer ==
    \E shape \in Shapes :
        \E cur \in Positions(BufferOf(shape)), anc \in Positions(BufferOf(shape)),
           sel \in BOOLEAN :
            /\ sel \/ anc = cur
            /\ InputState(BufferOf(shape), cur, anc, sel, <<>>)

\* any buffer, caret and selection, with a text on the clipboard
InitClip ==
    \E shape \in Shapes :
        \E cur \in Positions(BufferOf(shape)), anc \in Positions(BufferOf(shape)),
           sel \in BOOLEAN, clip \in ClipTexts :
            /\ sel \/ anc = cur
            /\ InputState(BufferOf(shape), cur, anc, sel, clip)

\* typing and pasting
NextInsert ==
    \/ \E t \in TypedTexts : TextInput(t)
    \/ CmdV

SpecInsert == InitClip /\ [][NextInsert]_vars

\* the keys that delete the selection
NextDelete == Backspace \/ Delete

SpecDelete == InitBuffer /\ [][NextDelete]_vars

\* select all, copy
NextSelect == CmdA \/ CmdC

SpecSelect == InitBuffer /\ [][NextSelect]_vars

\* the lines drawn as inputs of Tab and Shift+Tab: empty, fewer than four
\* spaces, exactly the indent, the indent before and after text, three
\* spaces before text, five spaces
IndentLines ==
    {<<>>, <<SP, SP>>, Indent, Indent \o <<"a">>, <<SP, SP, SP, "a">>,
     <<"a">> \o Indent, Indent \o <<SP>>}

\* any buffer of such lines, caret and selection
InitIndent ==
    \E k \in 1..MaxLines :
        \E lines \in [1..k -> IndentLines] :
            \E cur \in Positions(lines), anc \in Positions(lines), sel \in BOOLEAN :
                /\ sel \/ anc = cur
                /\ InputState(lines, cur, anc, sel, <<>>)

\* indent, unindent
NextIndent == Tab \/ ShiftTab

SpecIndent == InitIndent /\ [][NextIndent]_vars

\* the lines drawn as inputs of the search: "abab", "xab", runs of a, "ababa"
SearchLines ==
    {<<"a", "b", "a", "b">>, <<"x", "a", "b">>, <<"a", "a", "a">>,
     <<"a", "a", "a", "a">>, <<"a", "b", "a", "b", "a">>, <<>>, <<"b", "a">>}

\* the queries drawn as inputs, the empty one among them
SearchQueries ==
    {<<>>, <<"a">>, <<"a", "b">>, <<"a", "a">>, <<"a", "b", "a">>, <<"b">>}

\* search mode over any buffer of such lines, the query one character longer
\* than a query of SearchQueries and matching nowhere
InitSearch ==
    \E k \in 1..MaxLines :
        \E lines \in [1..k -> SearchLines], q \in SearchQueries :
            /\ editors = [p \in Panes |->
                             IF p = 0 THEN [NewEditorState EXCEPT !.lines = lines]
                             ELSE NewEditorState]
            /\ focused_editor = 0
            /\ search_mode = TRUE
            /\ search_query = q \o <<"z">>
            /\ search_match_index = -1
            /\ search_matches = <<>>
            /\ file_open_mode = FALSE
            /\ ctrl_x_pressed = FALSE
            /\ clipboard = <<>>
            /\ disk = InitDisk
            /\ PickerClosed
            /\ scan = ScanIdle
            /\ crashed = FALSE
            /\ ev = Ev("init", <<>>)
            /\ steps = MaxEvents - 3

\* shorten the query, step through the matches
NextSearch == SearchBackspace \/ \E step \in {1, -1} : SearchAdvance(step)

SpecSearch == InitSearch /\ [][NextSearch]_vars

\* a call jump_to_search_match(ed, idx) with any index, also one no match has
Jump(idx) ==
    /\ SearchKeys
    /\ editors' = [editors EXCEPT
                      ![focused_editor] = jump_to_search_match(Ed, search_matches, idx)]
    /\ Record("jump", <<idx>>)
    /\ UNCHANGED <<search_vars, search_frame>>

\* build the match list, then jump to any index from one below the first to
\* one above the last
NextJump ==
    \/ SearchBackspace
    \/ \E idx \in -1..Len(search_matches) : Jump(idx)

SpecJump == InitSearch /\ [][NextJump]_vars

\* the lines drawn as inputs of save and load: empty, text, text ending in
\* a carriage return
FileLines == {<<>>, <<"a">>, <<"b", CR>>}

\* the file_path values drawn as inputs: unset, or a path of the disk
FilePaths == {""} \cup Paths

\* any buffer of such lines with any caret, a selection from (0,0) or none,
\* any path binding, dirty flag and scroll offset
InitFile ==
    \E k \in 1..MaxLines :
        \E lines \in [1..k -> FileLines], path \in FilePaths, d \in BOOLEAN,
           sel \in BOOLEAN, s \in {0, k - 1} :
            \E cur \in Positions(lines) :
                /\ editors = [p \in Panes |->
                                 IF p = 0
                                 THEN [NewEditorState EXCEPT
                                          !.lines = lines, !.cursor = cur,
                                          !.sel_active = cur,
                                          !.sel_anchor = IF sel THEN Cursor(0, 0) ELSE cur,
                                          !.selecting = sel, !.scroll_offset = s,
                                          !.file_path = path, !.dirty = d]
                                 ELSE NewEditorState]
                /\ focused_editor = 0
                /\ search_mode = FALSE
                /\ search_query = <<>>
                /\ search_match_index = -1
                /\ search_matches = <<>>
                /\ file_open_mode = FALSE
                /\ ctrl_x_pressed = FALSE
                /\ clipboard = <<>>
                /\ disk = InitDisk
                /\ PickerClosed
                /\ scan = ScanIdle
                /\ crashed = FALSE
                /\ ev = Ev("init", <<>>)
                /\ steps = MaxEvents - 4

\* save, open the picker, pick a file or leave
NextFile ==
    \/ CmdS
    \/ CtrlX
    \/ CtrlF
    \/ PickerEscape
    \/ \E path \in Paths : PickerOpen(path)

SpecFile == InitFile /\ [][NextFile]_vars

\* the lines drawn as inputs of word motion: every line of letters and
\* spaces up to the length bound
WordLines == UNION {[1..n -> {"a", SP}] : n \in 0..MaxLineLen}

\* one or two such lines with any caret, a selection from (0,0) or none
InitWord ==
    \E k \in {1, 2} :
        \E lines \in [1..k -> WordLines], sel \in BOOLEAN :
            \E cur \in Positions(lines) :
                InputState(lines, cur, IF sel THEN Cursor(0, 0) ELSE cur, sel, <<>>)

\* forward word, backward word
NextWord == CtrlF \/ CtrlB

SpecWord == InitWord /\ [][NextWord]_vars

----------------------------------------------------------------------------
(* update_search_matches step by step: one action per pass of its loops.   *)

\* std::string::find(query, pos): the first column >= pos where query
\* starts, -1 (npos) when there is none; the empty query is found at pos
\* itself as long as pos is not past the end
string_find(line, query, pos) ==
    LET hits == {i \in pos..(Len(line) - Len(query)) :
                    substr(line, i, Len(query)) = query}
    IN  IF hits = {} THEN -1
        ELSE CHOOSE i \in hits : \A j \in hits : i <= j

\* what a step of the scan leaves alone
scan_frame == <<editors, focused_editor, search_mode, search_query, search_match_index,
                file_open_mode, ctrl_x_pressed, clipboard, disk, picker_vars,
                crashed, ev, steps>>

\* the call without the early return for an empty query
ScanStart_unguarded ==
    /\ scan.pc = "idle"
    /\ search_matches' = <<>>
    /\ scan' = [pc |-> "scan", r |-> 0, pos |-> 0]
    /\ UNCHANGED scan_frame

\* the call: search_matches.clear(); if (query.empty()) return;
ScanStart ==
    /\ scan.pc = "idle"
    /\ search_matches' = <<>>
    /\ scan' = [pc |-> IF search_query = <<>> THEN "done" ELSE "scan", r |-> 0, pos |-> 0]
    /\ UNCHANGED scan_frame

\* one pass of while (true) in row r: the match found is pushed and pos moves
\* behind it, or none is found and the for loop goes to the next row
ScanStep ==
    /\ scan.pc = "scan"
    /\ scan.r < Len(Ed.lines)
    /\ LET found == string_find(Line(Ed, scan.r), search_query, scan.pos)
       IN  IF found = -1
           THEN /\ scan' = [scan EXCEPT !.r = scan.r + 1, !.pos = 0]
                /\ UNCHANGED search_matches
           ELSE /\ search_matches' = Append(search_matches, Cursor(scan.r, found))
                /\ scan' = [scan EXCEPT !.pos = found + Len(search_query)]
    /\ UNCHANGED scan_frame

\* r reached lines.size(): the function returns
ScanReturn ==
    /\ scan.pc = "scan"
    /\ scan.r >= Len(Ed.lines)
    /\ scan' = [scan EXCEPT !.pc = "done"]
    /\ UNCHANGED <<scan_frame, search_matches>>

\* the lines drawn as inputs of the scan: empty, a run of a, "abab", "ba"
ScanLines ==
    {<<>>, <<"a", "a", "a">>, <<"a", "b", "a", "b">>, <<"b", "a">>}

\* search mode over any buffer of such lines with any query of
\* SearchQueries, the empty one among them, and matches left from before
InitScan ==
    \E k \in 1..MaxLines :
        \E lines \in [1..k -> ScanLines], q \in SearchQueries,
           old \in {<<>>, <<Cursor(0, 0)>>} :
            /\ editors = [p \in Panes |->
                             IF p = 0 THEN [NewEditorState EXCEPT !.lines = lines]
                             ELSE NewEditorState]
            /\ focused_editor = 0
            /\ search_mode = TRUE
            /\ search_query = q
            /\ search_match_index = -1
            /\ search_matches = old
            /\ file_open_mode = FALSE
            /\ ctrl_x_pressed = FALSE
            /\ clipboard = <<>>
            /\ disk = InitDisk
            /\ PickerClosed
            /\ scan = ScanIdle
            /\ crashed = FALSE
            /\ ev = Ev("init", <<>>)
            /\ steps = MaxEvents - 1

NextScan == ScanStart \/ ScanStep \/ ScanReturn

\* the scan is not suspended: a step that can be taken is taken
SpecScan == InitScan /\ [][NextScan]_vars /\ WF_vars(NextScan)

----------------------------------------------------------------------------
(* The claims.                                                             *)

\* pos is a valid position of the buffer of ed
ValidPos(ed, pos) ==
    /\ pos.row \in 0..(Len(ed.lines) - 1)
    /\ pos.col \in 0..Len(Line(ed, pos.row))

\* C1: after every event, in any sequence from the initial state, the cursor
\* of each pane is a valid position: 0 <= row <= line_count - 1 and
\* 0 <= col <= length(lines[row]).
C1_CursorInBounds == \A p \in Panes : ValidPos(editors[p], editors[p].cursor)

\* C1 witness: Shift+Tab shortened the cursor's line under an engaged
\* selection and clamp_cursor pulled the cursor back to the line's end.
C1_Witness ==
    /\ ev.kind = "shift_tab"
    /\ has_selection(Ed)
    /\ Ed.cursor.col = Len(Line(Ed, Ed.cursor.row))
    /\ Ed.sel_active.row = Ed.cursor.row
    /\ Ed.sel_active.col > Ed.cursor.col

\* C2: after every event both selection endpoints are valid positions of
\* the current buffer.  The code violates this: Shift+Tab with an engaged
\* selection shortens lines and leaves sel_anchor and sel_active as they were.
C2_SelectionInBounds ==
    \A p \in Panes : /\ ValidPos(editors[p], editors[p].sel_anchor)
                     /\ ValidPos(editors[p], editors[p].sel_active)

\* C3: in every reachable state the buffer of each pane holds at least one
\* line.
C3_BufferNonEmpty == \A p \in Panes : Len(editors[p].lines) >= 1

\* C3 witness: the empty file was loaded and the buffer is one empty line.
C3_Witness ==
    /\ ev.kind = "load"
    /\ Ed.file_path = "empty"
    /\ Ed.lines = << <<>> >>

\* the events C4 lists
ModifyingKinds ==
    {"text", "cmd_v", "backspace", "delete", "ctrl_d", "return", "tab", "shift_tab"}

\* C4: typed text, paste, Backspace, Delete, Ctrl+D, Enter, Tab and Shift+Tab
\* leave the dirty flag of a pane set whenever they change its buffer.  The
\* code violates this: Cmd+V and Ctrl+D never set the flag.
C4_ChangeSetsDirty ==
    [][\A p \in Panes :
          (ev'.kind \in ModifyingKinds /\ editors'[p].lines # editors[p].lines)
              => editors'[p].dirty]_vars

\* the pane the event acted on, after the event
EdAfter == editors'[focused_editor']

\* the number of newline characters of a text
NLCount(t) == Cardinality({i \in 1..Len(t) : t[i] = NL})

\* the characters of a text after its last newline
LastSegmentLen(t) ==
    Len(t) - Max(0, CHOOSE i \in 0..Len(t) :
                        /\ i > 0 => t[i] = NL
                        /\ \A j \in (i + 1)..Len(t) : t[j] # NL)

\* the lines of a buffer as one text, a newline between consecutive lines
RECURSIVE JoinNL(_)
JoinNL(ls) ==
    IF Len(ls) = 1 THEN ls[1] ELSE ls[1] \o <<NL>> \o JoinNL(Tail(ls))

\* the offset of a position in that text
RECURSIVE OffsetOf(_, _)
OffsetOf(ls, pos) ==
    IF pos.row = 0 THEN pos.col
    ELSE Len(ls[1]) + 1 + OffsetOf(Tail(ls), Cursor(pos.row - 1, pos.col))

\* C5: pasting a text with exactly k newline characters at a valid cursor
\* position, no selection engaged, raises the line count by exactly k.
C5_PasteAddsLines ==
    [][(ev'.kind = "cmd_v" /\ ~has_selection(Ed))
          => Len(EdAfter.lines) = Len(Ed.lines) + NLCount(clipboard)]_vars

\* C5 witness: "XY\n\nZ" was pasted into "ab" between a and b, one line
\* became three.
C5_Witness ==
    /\ ev.kind = "cmd_v"
    /\ NLCount(ev.text) = 2
    /\ Ed.lines = << <<"a", "X", "Y">>, <<>>, <<"Z", "b">> >>

\* the pane as typing or pasting finds it once an engaged selection is gone
InsertBase == IF has_selection(Ed) THEN delete_selection(Ed) ELSE Ed

\* C6: typed or pasted text replaces an engaged selection and goes verbatim
\* in at the cursor; the cursor ends after the text, its row advanced by the
\* number of newlines and its column the length of the last inserted segment
\* (the old column plus the text's length when there is no newline), and the
\* selection is collapsed onto the cursor and disengaged.  The code violates
\* this where the engaged selection is one Shift+Tab left past a line's end
\* (C2): delete_selection throws and nothing is inserted.
C6_InsertAtCursor ==
    [][(ev'.kind = "text" \/ (ev'.kind = "cmd_v" /\ clipboard # <<>>))
          => /\ ~crashed'
             /\ LET t    == ev'.text
                    k    == NLCount(t)
                    old  == JoinNL(InsertBase.lines)
                    off  == OffsetOf(InsertBase.lines, InsertBase.cursor)
                IN  /\ JoinNL(EdAfter.lines)
                          = SubSeq(old, 1, off) \o t \o SubSeq(old, off + 1, Len(old))
                    /\ Len(EdAfter.lines) = Len(InsertBase.lines) + k
                    /\ EdAfter.cursor.row = InsertBase.cursor.row + k
                    /\ EdAfter.cursor.col = IF k = 0 THEN InsertBase.cursor.col + Len(t)
                                            ELSE LastSegmentLen(t)
                    /\ EdAfter.sel_anchor = EdAfter.cursor
                    /\ EdAfter.sel_active = EdAfter.cursor
                    /\ ~EdAfter.selecting]_vars

\* the smaller and the larger endpoint of the selection, row first
SelStart(ed) ==
    IF \/ ed.sel_anchor.row < ed.sel_active.row
       \/ (ed.sel_anchor.row = ed.sel_active.row /\ ed.sel_anchor.col <= ed.sel_active.col)
    THEN ed.sel_anchor ELSE ed.sel_active
SelEnd(ed) == IF SelStart(ed) = ed.sel_anchor THEN ed.sel_active ELSE ed.sel_anchor

\* C7: deleting an effective selection whose bounds lie on rows r1 < r2
\* lowers the line count by exactly r2 - r1.  The code violates this where
\* Shift+Tab left an endpoint of the selection past its line's end (C2):
\* delete_selection throws and no row is removed.
C7_DeleteRemovesRows ==
    [][(/\ ev'.kind \in {"backspace", "delete"}
        /\ has_selection(Ed)
        /\ SelStart(Ed).row < SelEnd(Ed).row)
          => /\ ~crashed'
             /\ Len(EdAfter.lines)
                   = Len(Ed.lines) - (SelEnd(Ed).row - SelStart(Ed).row)]_vars

\* the buffer C8 describes: the head of row s.row and the tail of row e.row
\* in row s.row, the rows of (s.row, e.row] gone, the others as they were
LinesWithout(ls, s, e) ==
    [i \in 1..(Len(ls) - (e.row - s.row)) |->
        IF i - 1 < s.row THEN ls[i]
        ELSE IF i - 1 = s.row
        THEN SubSeq(ls[s.row + 1], 1, s.col)
                 \o SubSeq(ls[e.row + 1], e.col + 1, Len(ls[e.row + 1]))
        ELSE ls[i + (e.row - s.row)]]

\* C8: deleting an effective selection with bounds start <= end leaves in
\* row start.row the old line up to start.col followed by the old line
\* end.row from end.col on, removes the rows of (start.row, end.row], keeps
\* every other row in order, and puts the cursor and the collapsed,
\* disengaged selection at start.  The code violates this where Shift+Tab
\* left start past its line's end (C2): delete_selection throws.
C8_DeleteSelectionResult ==
    [][(ev'.kind \in {"backspace", "delete"} /\ has_selection(Ed))
          => /\ ~crashed'
             /\ EdAfter.lines = LinesWithout(Ed.lines, SelStart(Ed), SelEnd(Ed))
             /\ EdAfter.cursor = SelStart(Ed)
             /\ EdAfter.sel_anchor = SelStart(Ed)
             /\ EdAfter.sel_active = SelStart(Ed)
             /\ ~EdAfter.selecting]_vars

\* the pane with the span from pos to its cursor selected
Reselect(ed, pos) == [ed EXCEPT !.sel_anchor = pos, !.sel_active = ed.cursor,
                                !.selecting = TRUE]

\* C9: inserting a text at a valid position p and then deleting the
\* selection from p to the end of the inserted text restores the buffer line
\* for line and returns the cursor to p.
C9_InsertDeleteRoundTrip ==
    [][(ev'.kind \in {"text", "cmd_v"} /\ ev'.text # <<>> /\ ~has_selection(Ed))
          => LET back == delete_selection(Reselect(EdAfter, Ed.cursor))
             IN  /\ ~delete_selection_throws(Reselect(EdAfter, Ed.cursor))
                 /\ back.lines = Ed.lines
                 /\ back.cursor = Ed.cursor]_vars

\* C9 witness: "X\nY" was pasted into "abc" after a, and deleting from (0,1)
\* to the cursor gives "abc" back.
C9_Witness ==
    /\ ev.kind = "cmd_v"
    /\ ev.text = <<"X", NL, "Y">>
    /\ Ed.lines = << <<"a", "X">>, <<"Y", "b", "c">> >>
    /\ Ed.cursor = Cursor(1, 1)
    /\ delete_selection(Reselect(Ed, Cursor(0, 1))).lines = << <<"a", "b", "c">> >>

\* the position after the last character of a buffer
LastPos(ls) == Cursor(Len(ls) - 1, Len(ls[Len(ls)]))

\* C10: Cmd+A sets the anchor to (0,0), the active end and the cursor to the
\* end of the last line and engages the selection; the selection bounds are
\* (0,0) and that end, the extracted text is the lines joined by one newline
\* each, and the buffer is unchanged.
C10_SelectAll ==
    [][ev'.kind = "cmd_a"
          => /\ EdAfter.sel_anchor = Cursor(0, 0)
             /\ EdAfter.sel_active = LastPos(Ed.lines)
             /\ EdAfter.cursor = LastPos(Ed.lines)
             /\ EdAfter.selecting
             /\ get_selection_bounds(EdAfter)
                   = [start |-> Cursor(0, 0), end |-> LastPos(Ed.lines)]
             /\ get_selected_text(EdAfter) = JoinNL(Ed.lines)
             /\ clipboard' = JoinNL(Ed.lines)
             /\ EdAfter.lines = Ed.lines]_vars

\* C10 witness: Cmd+A on "abc", "de" selected (0,0)-(1,2) and copied
\* "abc\nde".
C10_Witness ==
    /\ ev.kind = "cmd_a"
    /\ Ed.lines = << <<"a", "b", "c">>, <<"d", "e">> >>
    /\ get_selection_bounds(Ed) = [start |-> Cursor(0, 0), end |-> Cursor(1, 2)]
    /\ get_selected_text(Ed) = <<"a", "b", "c", NL, "d", "e">>
    /\ clipboard = <<"a", "b", "c", NL, "d", "e">>

\* a text with the indent unit put after each of its newlines
RECURSIVE IndentAfterNL(_)
IndentAfterNL(t) ==
    IF t = <<>> THEN <<>>
    ELSE (IF Head(t) = NL THEN <<NL, SP, SP, SP, SP>> ELSE <<Head(t)>>)
             \o IndentAfterNL(Tail(t))

\* Tab with an engaged selection puts four spaces before every line of the
\* selection's row span and before no other, and moves the columns of cursor,
\* sel_anchor and sel_active right by 4
TabIndentsSpan ==
    /\ EdAfter.lines = [i \in 1..Len(Ed.lines) |->
                           IF SelStart(Ed).row <= i - 1 /\ i - 1 <= SelEnd(Ed).row
                           THEN <<SP, SP, SP, SP>> \o Ed.lines[i]
                           ELSE Ed.lines[i]]
    /\ EdAfter.cursor = Cursor(Ed.cursor.row, Ed.cursor.col + 4)
    /\ EdAfter.sel_anchor = Cursor(Ed.sel_anchor.row, Ed.sel_anchor.col + 4)
    /\ EdAfter.sel_active = Cursor(Ed.sel_active.row, Ed.sel_active.col + 4)
    /\ EdAfter.selecting

\* C11 as stated: Tab with an engaged selection indents the span, shifts the
\* columns by 4, and the selection covers the same characters as before.
C11_TabKeepsSelectedText ==
    [][(ev'.kind = "tab" /\ has_selection(Ed))
          => /\ TabIndentsSpan
             /\ get_selected_text(EdAfter) = get_selected_text(Ed)]_vars

\* C11: Tab with an engaged selection prefixes exactly 4 spaces to every line
\* from bounds.start.row to bounds.end.row, leaves the other lines unchanged
\* and shifts the columns of cursor, sel_anchor and sel_active right by 4; the
\* selection then covers the characters it covered before and, in every row
\* of the span after the first, the four spaces put there.
C11_TabIndentsSelection ==
    [][(ev'.kind = "tab" /\ has_selection(Ed))
          => /\ TabIndentsSpan
             /\ get_selected_text(EdAfter) = IndentAfterNL(get_selected_text(Ed))]_vars

\* C11 witness: Tab indented the first two of three lines, the third is
\* still two spaces, and the selection runs over both indented rows.
C11_Witness ==
    /\ ev.kind = "tab"
    /\ has_selection(Ed)
    /\ Len(Ed.lines) = 3
    /\ SelStart(Ed).row = 0
    /\ SelEnd(Ed).row = 1
    /\ starts_with_indent(Ed.lines[1])
    /\ starts_with_indent(Ed.lines[2])
    /\ Ed.lines[3] = <<SP, SP>>

\* row r is one Shift+Tab works on: the cursor's row, or a row of the span
\* of the engaged selection
Affected(ed, r) ==
    IF has_selection(ed) THEN SelStart(ed).row <= r /\ r <= SelEnd(ed).row
    ELSE r = ed.cursor.row

\* the first four characters of a line are four spaces
FourSpaces(line) == Len(line) >= 4 /\ \A i \in 1..4 : line[i] = SP

\* C12: Shift+Tab removes exactly the first 4 characters of an affected line
\* if and only if they are four spaces; every other affected line (fewer
\* than four leading spaces, other characters, shorter than 4) and every line
\* outside the affected range is left as it was.
C12_UnindentWholeUnitOnly ==
    [][ev'.kind = "shift_tab"
          => EdAfter.lines = [i \in 1..Len(Ed.lines) |->
                 IF Affected(Ed, i - 1) /\ FourSpaces(Ed.lines[i])
                 THEN SubSeq(Ed.lines[i], 5, Len(Ed.lines[i]))
                 ELSE Ed.lines[i]]]_vars

\* C12 witness: Shift+Tab over two selected rows turned "    a" into "a" and
\* left "   a", three spaces, alone.
C12_Witness ==
    /\ ev.kind = "shift_tab"
    /\ has_selection(Ed)
    /\ SelStart(Ed).row = 0
    /\ SelEnd(Ed).row = 1
    /\ Ed.lines = << <<"a">>, <<SP, SP, SP, "a">> >>

\* q stands in the line at column c
OccursAt(line, q, c) ==
    /\ c + Len(q) <= Len(line)
    /\ \A i \in 1..Len(q) : line[c + i] = q[i]

\* the columns of the left-to-right non-overlapping occurrences of q: an
\* occurrence counts unless one counted before it reaches into it
Picked(line, q) ==
    LET P[c \in 0..Len(line)] ==
            /\ OccursAt(line, q, c)
            /\ \A d \in 0..(c - 1) : d + Len(q) > c => ~P[d]
    IN  {c \in 0..Len(line) : P[c]}

\* a is before b row-major
RowMajorBefore(a, b) == a.row < b.row \/ (a.row = b.row /\ a.col < b.col)

\* C13: for a non-empty query the computed match list holds exactly the
\* left-to-right non-overlapping occurrences of the query in each line, in
\* ascending row and then ascending column; for the empty query it is empty.
C13_SearchMatches ==
    [][(ev'.kind = "search_backspace" /\ search_query # <<>>)
          => LET q  == search_query'
                 ms == search_matches'
             IN  /\ q = SubSeq(search_query, 1, Len(search_query) - 1)
                 /\ q = <<>> => ms = <<>>
                 /\ q # <<>> =>
                       /\ {ms[i] : i \in 1..Len(ms)}
                             = UNION {{Cursor(r, c) : c \in Picked(Ed.lines[r + 1], q)} :
                                         r \in 0..(Len(Ed.lines) - 1)}
                       /\ \A i \in 1..Len(ms), j \in 1..Len(ms) :
                             i < j => RowMajorBefore(ms[i], ms[j])]_vars

\* C13 witness: the query "ab" on "abab", "xab" found (0,0), (0,2), (1,1).
C13_Witness ==
    /\ ev.kind = "search_backspace"
    /\ search_query = <<"a", "b">>
    /\ Ed.lines = << <<"a", "b", "a", "b">>, <<"x", "a", "b">> >>
    /\ search_matches = <<Cursor(0, 0), Cursor(0, 2), Cursor(1, 1)>>

\* a load of a readable file is happening; LoadPath is the path picked and
\* LoadContent what the file holds
Loading == ev'.kind = "load" /\ disk[ev'.text[1]].readable
LoadPath == ev'.text[1]
LoadContent == disk[ev'.text[1]].content

\* the file picked is the pane's own, and holds what a save of the buffer
\* writes
SavedBuffer == LoadPath = Ed.file_path /\ LoadContent = JoinNL(Ed.lines)

\* the content does not end in a newline
Unterminated(c) == c = <<>> \/ c[Len(c)] # NL

\* the load gives the lines a load of the same content plus one newline gives
TrailingNewlineIgnored ==
    Unterminated(LoadContent)
        => EdAfter.lines
              = load_file(Ed, LoadPath, File(TRUE, TRUE, LoadContent \o <<NL>>)).lines

\* a line without one trailing carriage return
StripCR(l) == IF Len(l) > 0 /\ l[Len(l)] = CR THEN SubSeq(l, 1, Len(l) - 1) ELSE l

\* a buffer without its last line when that line is empty and not the only one
DropLastEmpty(ls) ==
    IF Len(ls) > 1 /\ ls[Len(ls)] = <<>> THEN SubSeq(ls, 1, Len(ls) - 1) ELSE ls

\* C14 as stated: saving a buffer and loading the file gives back exactly the
\* lines saved, for every buffer; and a file without and with one trailing
\* newline load to the same lines.
C14_SaveLoadRoundTrip ==
    [][Loading => /\ SavedBuffer => EdAfter.lines = Ed.lines
                  /\ TrailingNewlineIgnored]_vars

\* C14: saving a buffer and loading the file gives back the lines saved,
\* except that an empty last line of a buffer of several lines is gone and
\* each line has lost one trailing carriage return; and a file without and
\* with one trailing newline load to the same lines.
C14_SaveLoadLines ==
    [][Loading => /\ SavedBuffer
                     => EdAfter.lines
                           = [i \in 1..Len(DropLastEmpty(Ed.lines)) |->
                                 StripCR(DropLastEmpty(Ed.lines)[i])]
                  /\ TrailingNewlineIgnored]_vars

\* C14 witness: "a", "b\r", "" was saved to "text" and loaded back as "a",
\* "b".
C14_Witness ==
    /\ ev.kind = "load"
    /\ ev.text = <<"text">>
    /\ disk["text"].content = <<"a", NL, "b", CR, NL>>
    /\ Ed.lines = << <<"a">>, <<"b">> >>

\* the offsets at which the lines of a content start: the first character
\* and each character after a newline
LineStarts(c) == {i \in 1..Len(c) : i = 1 \/ c[i - 1] = NL}

\* the line that starts at offset i: up to the next newline or the end
LineAt(c, i) ==
    LET stops == {j \in i..Len(c) : c[j] = NL} \cup {Len(c) + 1}
        stop  == CHOOSE j \in stops : \A k \in stops : j <= k
    IN  SubSeq(c, i, stop - 1)

\* the content split at its line feeds, one trailing carriage return off
\* each line; one empty line when the content has no line
SplitLines(c) ==
    IF c = <<>> THEN << <<>> >>
    ELSE [n \in 1..Cardinality(LineStarts(c)) |->
             StripCR(LineAt(c, CHOOSE i \in LineStarts(c) :
                                   Cardinality({j \in LineStarts(c) : j < i}) = n - 1))]

\* C15: a successful load replaces the buffer by the file's content split on
\* line feeds with one trailing carriage return stripped from each line (one
\* empty line if there is none) and sets cursor = (0,0), the selection
\* collapsed and disengaged at (0,0), dirty = false and file_path = path.
C15_LoadResult ==
    [][Loading => /\ EdAfter.lines = SplitLines(LoadContent)
                  /\ EdAfter.cursor = Cursor(0, 0)
                  /\ EdAfter.sel_anchor = Cursor(0, 0)
                  /\ EdAfter.sel_active = Cursor(0, 0)
                  /\ ~EdAfter.selecting
                  /\ ~EdAfter.dirty
                  /\ EdAfter.file_path = LoadPath]_vars

\* C15 witness: "a\r\n \n" was loaded from "text" as "a", " ".
C15_Witness ==
    /\ ev.kind = "load"
    /\ disk["text"].content = <<"a", CR, NL, SP, NL>>
    /\ Ed.file_path = "text"
    /\ Ed.lines = << <<"a">>, <<SP>> >>
    /\ Ed.cursor = Cursor(0, 0)
    /\ ~Ed.dirty

\* C16: a load of an unreadable path leaves lines, cursor, selection, scroll
\* offset, file_path and dirty flag of the pane exactly as they were, and
\* the process goes on.
C16_FailedLoadNoChange ==
    [][(ev'.kind = "load" /\ ~disk[ev'.text[1]].readable)
          => EdAfter = Ed /\ ~crashed']_vars

\* C16 witness: "locked" was picked while the pane held a modified buffer
\* bound to another path; the buffer is still there and still dirty.
C16_Witness ==
    /\ ev.kind = "load"
    /\ ev.text = <<"locked">>
    /\ Ed.lines # << <<>> >>
    /\ Ed.cursor # Cursor(0, 0)
    /\ Ed.dirty
    /\ Ed.file_path = "text"

\* the pane that does not have the focus
OtherPane == 1 - focused_editor

\* C17: save writes the lines joined by single line feeds, none after the
\* last line, and clears the dirty flag; with file_path unset it writes
\* nothing and leaves the dirty flag; when the file cannot be opened for
\* writing it leaves the dirty flag and everything else; it never changes
\* lines, cursor or selection.
C17_SaveContract ==
    [][ev'.kind = "cmd_s"
          => /\ IF Ed.file_path # "" /\ disk[Ed.file_path].writable
                THEN /\ disk' = [disk EXCEPT ![Ed.file_path].content = JoinNL(Ed.lines)]
                     /\ EdAfter = [Ed EXCEPT !.dirty = FALSE]
                ELSE /\ disk' = disk
                     /\ EdAfter = Ed
             /\ editors'[OtherPane] = editors[OtherPane]
             /\ focused_editor' = focused_editor
             /\ clipboard' = clipboard
             /\ ~crashed']_vars

\* C17 witness: the modified buffer "a", "b\r", "" was saved to "text" as
\* "a\nb\r\n" and is clean.
C17_Witness ==
    /\ ev.kind = "cmd_s"
    /\ Ed.file_path = "text"
    /\ Ed.lines = << <<"a">>, <<"b", CR>>, <<>> >>
    /\ disk["text"].content = <<"a", NL, "b", CR, NL>>
    /\ ~Ed.dirty

\* C18: in every reachable state the scroll offset s of each pane satisfies
\* 0 <= s <= max(0, L - P), L the pane's line count and P the page height.
\* The code violates this: only Up, Down, Ctrl+G and Ctrl+H ever adjust
\* scroll_offset, so it stays where it was when the buffer shrinks.
C18_ScrollInBounds ==
    \A p \in Panes :
        LET s    == editors[p].scroll_offset
            room == Len(editors[p].lines) - LinesPerPage
        IN  0 <= s /\ s <= (IF room > 0 THEN room ELSE 0)

\* the events C19 lists
CursorMoves ==
    {"up", "down", "left", "right", "return", "backspace", "cmd_v", "mouse",
     "cmd_a", "search_backspace", "search_next", "search_prev"}

\* the pane an event acts on, before the event: the pane clicked, or the
\* focused one
EdBefore == editors[focused_editor']

\* C19: after an operation of that list has moved the cursor, the cursor row
\* is inside the viewport, s <= cursor.row < s + P, with s set to cursor.row
\* when the cursor was above the viewport and to cursor.row - P + 1 when it
\* was at or below its end.  The code violates this: Enter, Backspace, paste,
\* Left, Right, the mouse click and Cmd+A never adjust scroll_offset.
C19_CursorInViewport ==
    [][(ev'.kind \in CursorMoves /\ EdAfter.cursor # EdBefore.cursor)
          => LET r == EdAfter.cursor.row
                 s == EdBefore.scroll_offset
             IN  /\ EdAfter.scroll_offset
                       = IF r < s THEN r
                         ELSE IF r >= s + LinesPerPage THEN r - LinesPerPage + 1
                         ELSE s
                 /\ EdAfter.scroll_offset <= r
                 /\ r < EdAfter.scroll_offset + LinesPerPage]_vars

\* C20 as stated: an event processed while pane i has the focus leaves the
\* EditorState of the other pane unchanged.
C20_OtherPaneUnchanged ==
    [][editors'[OtherPane] = editors[OtherPane]]_vars

\* C20: an event changes the EditorState of one pane at most: of the pane
\* clicked, which takes the focus, for a mouse click, and of the pane that
\* has the focus for every other event.
C20_OnePanePerEvent ==
    [][IF ev'.kind = "mouse"
       THEN editors'[1 - focused_editor'] = editors[1 - focused_editor']
       ELSE editors'[OtherPane] = editors[OtherPane]]_vars

\* C20 witness: a space was typed into pane 1 while pane 0 holds "a".
C20_Witness ==
    /\ ev.kind = "text"
    /\ focused_editor = 1
    /\ editors[1].lines = << <<SP>> >>
    /\ editors[0].lines = << <<"a">> >>
    /\ editors[0].cursor = Cursor(0, 1)

\* the row-major list of the non-overlapping occurrences of q in the lines ls
\* is ms (no occurrence at all for the empty query)
IsRescan(ms, ls, q) ==
    /\ {ms[i] : i \in 1..Len(ms)}
          = IF q = <<>> THEN {}
            ELSE UNION {{Cursor(r, c) : c \in Picked(ls[r + 1], q)} :
                           r \in 0..(Len(ls) - 1)}
    /\ \A i \in 1..Len(ms), j \in 1..Len(ms) : i < j => RowMajorBefore(ms[i], ms[j])

C22_SearchStaysInPane ==
    [][(search_mode /\ search_mode') => focused_editor' = focused_editor]_vars

\* the event being processed is one of the operations with nothing to do:
\* Backspace at (0,0), Delete or Ctrl+D at the end of the last line (each
\* with no selection), word-backward at column 0, word-forward at the end of
\* the line, Left at (0,0), Right at the end of the buffer, next or previous
\* match with no match
EmptyResult ==
    \/ /\ ev'.kind = "backspace"
       /\ ~has_selection(Ed) /\ Ed.cursor = Cursor(0, 0)
    \/ /\ ev'.kind \in {"delete", "ctrl_d"}
       /\ ~has_selection(Ed) /\ Ed.cursor = LastPos(Ed.lines)
    \/ ev'.kind = "ctrl_b" /\ Ed.cursor.col = 0
    \/ ev'.kind = "ctrl_f" /\ Ed.cursor.col = Len(Line(Ed, Ed.cursor.row))
    \/ ev'.kind = "left" /\ Ed.cursor = Cursor(0, 0)
    \/ ev'.kind = "right" /\ Ed.cursor = LastPos(Ed.lines)
    \/ ev'.kind \in {"search_next", "search_prev"} /\ search_matches = <<>>

\* C23: an operation with nothing to do leaves the lines, the cursor
\* position and the dirty flag of the editor as they were.
C23_EmptyResultNoOp ==
    [][EmptyResult => /\ EdAfter.lines = Ed.lines
                      /\ EdAfter.cursor = Ed.cursor
                      /\ EdAfter.dirty = Ed.dirty]_vars

\* the line without its character at column c
RemoveAt(line, c) == SubSeq(line, 1, c) \o SubSeq(line, c + 2, Len(line))

\* the lines with the character at (r, c) removed
LinesWithoutChar(ls, r, c) ==
    [i \in 1..Len(ls) |-> IF i - 1 = r THEN RemoveAt(ls[i], c) ELSE ls[i]]

\* the lines with row r + 1 appended to row r and removed
LinesJoined(ls, r) ==
    [i \in 1..(Len(ls) - 1) |->
        IF i - 1 < r THEN ls[i]
        ELSE IF i - 1 = r THEN ls[r + 1] \o ls[r + 2]
        ELSE ls[i + 1]]

\* the selection of ed is collapsed on its cursor
CollapsedOnCursor(ed) == ed.sel_anchor = ed.cursor /\ ed.sel_active = ed.cursor

\* C24: Backspace with an effective selection deletes exactly the selection;
\* otherwise with col > 0 it removes the character before the cursor and
\* decrements col; otherwise with row > 0 it appends the line to the previous
\* one, removes it and puts the cursor at (row - 1, old length of the previous
\* line); in every case the selection ends collapsed on the cursor.  The code
\* violates this where Shift+Tab left an endpoint of the selection past its
\* line's end (C2): delete_selection throws.
C24_DeleteBackward ==
    [][ev'.kind = "backspace"
          => LET row == Ed.cursor.row
                 col == Ed.cursor.col
             IN  /\ ~crashed'
                 /\ CollapsedOnCursor(EdAfter)
                 /\ has_selection(Ed) =>
                       /\ EdAfter.lines = LinesWithout(Ed.lines, SelStart(Ed), SelEnd(Ed))
                       /\ EdAfter.cursor = SelStart(Ed)
                 /\ (~has_selection(Ed) /\ col > 0) =>
                       /\ EdAfter.lines = LinesWithoutChar(Ed.lines, row, col - 1)
                       /\ EdAfter.cursor = Cursor(row, col - 1)
                 /\ (~has_selection(Ed) /\ col = 0 /\ row > 0) =>
                       /\ Len(EdAfter.lines) = Len(Ed.lines) - 1
                       /\ EdAfter.lines = LinesJoined(Ed.lines, row - 1)
                       /\ EdAfter.cursor = Cursor(row - 1, Len(Line(Ed, row - 1)))]_vars

\* C25: Delete and Ctrl+D with an effective selection delete exactly the
\* selection; otherwise they remove the character at the cursor, or at the
\* end of a line append the next line to it and remove that line, the cursor
\* staying where it was; in every case the selection ends collapsed on the
\* cursor.  The code violates this for Ctrl+D, which never looks at the
\* selection, and for Delete where delete_selection throws (C2).
C25_DeleteForward ==
    [][ev'.kind \in {"delete", "ctrl_d"}
          => LET row == Ed.cursor.row
                 col == Ed.cursor.col
             IN  /\ ~crashed'
                 /\ CollapsedOnCursor(EdAfter)
                 /\ has_selection(Ed) =>
                       /\ EdAfter.lines = LinesWithout(Ed.lines, SelStart(Ed), SelEnd(Ed))
                       /\ EdAfter.cursor = SelStart(Ed)
                 /\ (~has_selection(Ed) /\ col < Len(Line(Ed, row))) =>
                       /\ EdAfter.lines = LinesWithoutChar(Ed.lines, row, col)
                       /\ EdAfter.cursor = Ed.cursor
                 /\ (~has_selection(Ed) /\ col = Len(Line(Ed, row))
                        /\ row + 1 < Len(Ed.lines)) =>
                       /\ Len(EdAfter.lines) = Len(Ed.lines) - 1
                       /\ EdAfter.lines = LinesJoined(Ed.lines, row)
                       /\ EdAfter.cursor = Ed.cursor]_vars

\* the buffer and the cursor Enter splits at: those the deletion of an
\* engaged selection leaves
SplitLinesBase ==
    IF has_selection(Ed) THEN LinesWithout(Ed.lines, SelStart(Ed), SelEnd(Ed))
    ELSE Ed.lines
SplitPos == IF has_selection(Ed) THEN SelStart(Ed) ELSE Ed.cursor

\* C26: Enter deletes an engaged selection, then splits the cursor line at
\* the cursor column: one line more, row keeps the text before the column,
\* row + 1 holds the text from the column on, every other line keeps its
\* content and order, the cursor is at (row + 1, 0) and the selection
\* collapsed there.  The code violates this where Shift+Tab left an endpoint
\* of the selection past its line's end (C2): delete_selection throws.
C26_EnterSplitsLine ==
    [][ev'.kind = "return"
          => LET base == SplitLinesBase
                 row  == SplitPos.row
                 col  == SplitPos.col
                 new  == EdAfter.lines
             IN  /\ ~crashed'
                 /\ Len(new) = Len(base) + 1
                 /\ new[row + 1] = SubSeq(base[row + 1], 1, col)
                 /\ new[row + 2] = SubSeq(base[row + 1], col + 1, Len(base[row + 1]))
                 /\ new[row + 1] \o new[row + 2] = base[row + 1]
                 /\ \A i \in 1..Len(base) :
                       /\ i < row + 1 => new[i] = base[i]
                       /\ i > row + 1 => new[i + 1] = base[i]
                 /\ EdAfter.cursor = Cursor(row + 1, 0)
                 /\ CollapsedOnCursor(EdAfter)]_vars

\* IndentWidth spaces
Spaces == [i \in 1..IndentWidth |-> SP]

RemovedFromCursorLine ==
    Len(Line(Ed, Ed.cursor.row)) - Len(Line(EdAfter, Ed.cursor.row))

\* C28: after Shift+Tab the cursor column is the old one less the number of
\* characters removed from the cursor's own line (4 or 0), floored at 0, with
\* and without a selection.
C28_UnindentMovesCursor ==
    [][ev'.kind = "shift_tab"
          => /\ RemovedFromCursorLine \in {0, IndentWidth}
             /\ EdAfter.cursor
                   = Cursor(Ed.cursor.row,
                            Max(0, Ed.cursor.col - RemovedFromCursorLine))]_vars

\* ch is a letter
IsLetter(ch) == \E i \in 1..Len(Letters) : Letters[i] = ch

\* from column c, column j is behind one maximal run of letters and then one
\* maximal run of other characters, or at the end of the line
ForwardStop(line, c, j) ==
    /\ j <= Len(line)
    /\ \E k \in c..j :
          /\ \A i \in (c + 1)..k : IsLetter(line[i])
          /\ k = Len(line) \/ ~IsLetter(line[k + 1])
          /\ \A i \in (k + 1)..j : ~IsLetter(line[i])
          /\ j = Len(line) \/ IsLetter(line[j + 1])

\* from column c, column j is before one maximal run of other characters and
\* then one maximal run of letters, or at column 0
BackwardStop(line, c, j) ==
    /\ j >= 0
    /\ \E k \in j..c :
          /\ \A i \in (k + 1)..c : ~IsLetter(line[i])
          /\ k = 0 \/ IsLetter(line[k])
          /\ \A i \in (j + 1)..k : IsLetter(line[i])
          /\ j = 0 \/ ~IsLetter(line[j])

\* C29: word motion leaves the buffer and the cursor's row alone; forward it
\* moves the column past one maximal run of alphanumeric characters and then
\* one maximal run of the others, stopping at the line length; backward it
\* moves past one run of the others and then one alphanumeric run, stopping
\* at column 0; the selection ends collapsed on the new cursor.
C29_WordMotion ==
    [][ev'.kind \in {"ctrl_f", "ctrl_b"}
          => LET line == Line(Ed, Ed.cursor.row)
             IN  /\ EdAfter.lines = Ed.lines
                 /\ EdAfter.cursor.row = Ed.cursor.row
                 /\ CollapsedOnCursor(EdAfter)
                 /\ ev'.kind = "ctrl_f"
                       => ForwardStop(line, Ed.cursor.col, EdAfter.cursor.col)
                 /\ ev'.kind = "ctrl_b"
                       => BackwardStop(line, Ed.cursor.col, EdAfter.cursor.col)]_vars

\* C29 witness: word-forward from the start of "a a" has stopped before the
\* second word, on a line that is not the last.
C29_Witness ==
    /\ ev.kind = "ctrl_f"
    /\ Ed.lines = << <<"a", SP, "a">>, <<"a">> >>
    /\ Ed.cursor = Cursor(0, 2)

\* the index is -1 exactly when there is no match and otherwise the index
\* of a match
IndexConsistent ==
    /\ search_match_index = -1 <=> search_matches = <<>>
    /\ search_matches # <<>> => search_match_index \in 0..(Len(search_matches) - 1)

\* a query change resets the index to 0 if a match exists and to -1 if not;
\* next and previous step it by one, wrapping at the ends of the list, and
\* change nothing when there is no match
IndexSteps ==
    LET n == Len(search_matches)
    IN  /\ search_query' # search_query
              => search_match_index' = IF search_matches' # <<>> THEN 0 ELSE -1
        /\ (ev'.kind = "search_next" /\ n > 0)
              => /\ search_match_index'
                       = IF search_match_index = n - 1 THEN 0
                         ELSE search_match_index + 1
                 /\ search_matches' = search_matches
        /\ (ev'.kind = "search_prev" /\ n > 0)
              => /\ search_match_index'
                       = IF search_match_index = 0 THEN n - 1
                         ELSE search_match_index - 1
                 /\ search_matches' = search_matches
        /\ (ev'.kind \in {"search_next", "search_prev"} /\ n = 0)
              => UNCHANGED <<search_vars, editors>>

\* C30: the current match index is -1 exactly when the match list is empty
\* and otherwise lies in [0, match_count - 1]; every query change resets it
\* to 0 if any match exists, else to -1; next and previous move it by one
\* modulo match_count and do nothing when there is no match.
C30_MatchIndex == []IndexConsistent /\ [][IndexSteps]_vars

\* C30 witness: next match on the last of three matches has wrapped to the
\* first.
C30_Witness ==
    /\ ev.kind = "search_next"
    /\ Len(search_matches) = 3
    /\ search_match_index = 0
    /\ Ed.cursor = search_matches[1]
    /\ steps = MaxEvents

\* the index the event being processed jumps to
JumpIdx == IF ev'.kind = "jump" THEN ev'.text[1] ELSE search_match_index'

\* C31: a jump to a match with a valid index sets the cursor to the match
\* position, collapses and disengages the selection there, leaves the buffer
\* unchanged and leaves the match row inside the viewport; a jump with an
\* index below 0 or not below the match count leaves the editor unchanged.
C31_JumpToMatch ==
    [][ev'.kind \in {"jump", "search_next", "search_prev", "search_backspace"}
          => LET ms == search_matches'
             IN  IF JumpIdx \in 0..(Len(ms) - 1)
                 THEN /\ EdAfter.cursor = ms[JumpIdx + 1]
                      /\ CollapsedOnCursor(EdAfter)
                      /\ ~EdAfter.selecting
                      /\ EdAfter.lines = Ed.lines
                      /\ EdAfter.scroll_offset <= EdAfter.cursor.row
                      /\ EdAfter.cursor.row < EdAfter.scroll_offset + LinesPerPage
                 ELSE EdAfter = Ed]_vars

\* C31 witness: a jump to the third of three matches has put the cursor on
\* row 1 and scrolled that row into view.
C31_Witness ==
    /\ ev.kind = "jump"
    /\ ev.text = <<2>>
    /\ Len(search_matches) = 3
    /\ Ed.cursor = Cursor(1, 1)
    /\ Ed.scroll_offset = 2 - LinesPerPage

\* C32: in every pane after every operation sel_active equals the cursor,
\* and whenever no selection is effective sel_anchor equals it too (so a
\* Shift+arrow move from a plain caret at p to q selects exactly the span
\* between p and q), also right after Tab or Shift+Tab with no selection.
C32_CursorIsActiveEnd ==
    \A p \in Panes :
        /\ editors[p].sel_active = editors[p].cursor
        /\ ~has_selection(editors[p]) => editors[p].sel_anchor = editors[p].cursor

\* C33: while search mode is active a text-input event appends the typed
\* text to the query, recomputes the matches and jumps to the first match,
\* and no event between entering and leaving search mode changes the buffer
\* of a pane.
C33_SearchConsumesText ==
    [][search_mode
          => /\ ev'.kind = "text"
                   => /\ search_query' = search_query \o ev'.text
                      /\ IsRescan(search_matches', Ed.lines, search_query')
                      /\ search_matches' # <<>> => EdAfter.cursor = search_matches'[1]
             /\ \A p \in Panes : editors'[p].lines = editors[p].lines]_vars

\* C34: Ctrl+F after Ctrl+X opens the file picker and leaves the focused
\* pane's lines, cursor, selection, scroll offset and dirty flag exactly as
\* they were before the key press.
C34_PickerOpenKeepsEditor ==
    [][(ev'.kind = "ctrl_f" /\ ctrl_x_pressed)
          => /\ file_open_mode'
             /\ EdAfter = Ed]_vars

----------------------------------------------------------------------------

\* C37: in the file picker, whenever the entry list is not empty, the
\* selected index is in 0 .. entry_count - 1 and the selected entry is among
\* the at most ten entries displayed:
\* file_scroll_offset <= dir_selected < file_scroll_offset + 10, also after
\* Down wraps from the last entry to the first and after Up wraps from the
\* first to the last.
C37_SelectedEntryVisible ==
    (file_open_mode /\ dir_count > 0)
        => /\ dir_selected \in 0..(dir_count - 1)
           /\ file_scroll_offset <= dir_selected
           /\ dir_selected < file_scroll_offset + MaxVisible

----------------------------------------------------------------------------

\* the pane after is what load_file makes of the pane before: the file's
\* content when the path is readable, the pane as it was when it is not
LoadedInto(after, before, path) ==
    IF disk[path].readable
    THEN /\ after.lines = SplitLines(disk[path].content)
         /\ after.cursor = Cursor(0, 0)
         /\ after.sel_anchor = Cursor(0, 0)
         /\ after.sel_active = Cursor(0, 0)
         /\ ~after.selecting
         /\ ~after.dirty
         /\ after.file_path = path
    ELSE after = before

\* an event of the picker changes no pane, except that the choice of a file
\* entry loads the file into the focused pane
PickerKeepsPanes ==
    /\ focused_editor' = focused_editor
    /\ ev'.kind # "load" => editors' = editors
    /\ ev'.kind = "load" => /\ editors'[OtherPane] = editors[OtherPane]
                            /\ LoadedInto(EdAfter, Ed, ev'.text[1])

\* file-open mode is left exactly on the events of these kinds
PickerLeftOn(kinds) == ~file_open_mode' <=> ev'.kind \in kinds

\* C35 as stated: while file-open mode is active every event is consumed by
\* the picker: no pane changes, except that the choice of a file entry
\* changes the focused pane, and only as the load contract says; file-open
\* mode is left exactly on Escape (in the entry list or in the new-directory
\* prompt) or on the choice of a file entry.
C35_PickerLeftOnEscape ==
    [][file_open_mode
          => /\ PickerKeepsPanes
             /\ PickerLeftOn({"picker_escape", "create_escape", "load"})]_vars

\* C35 amended: as above, but file-open mode is left exactly on Escape in the
\* entry list or on the choice of a file entry; Escape in the new-directory
\* prompt closes the prompt only.
C35_PickerLeftOnListEscape ==
    [][file_open_mode
          => /\ PickerKeepsPanes
             /\ PickerLeftOn({"picker_escape", "load"})]_vars

\* C35 witness: with "a" typed in pane 0 and the focus on pane 1, the picker
\* loaded "text" into pane 1 and closed; pane 0 still holds "a".
C35_Witness ==
    /\ ev.kind = "load"
    /\ ev.text = <<"text">>
    /\ ~file_open_mode
    /\ focused_editor = 1
    /\ editors[1].file_path = "text"
    /\ ~editors[1].dirty
    /\ editors[0].lines = << <<"a">> >>
    /\ editors[0].dirty

----------------------------------------------------------------------------

\* C36: for every buffer and every effective selection, copying the
\* selection's text, deleting the selection and pasting the text at the
\* resulting cursor restores the buffer line for line and leaves the cursor
\* at the selection's former end bound.  The code violates this where
\* Shift+Tab left an endpoint of the selection past its line's end (C2).
C36_CutPasteRoundTrip ==
    [][(ev'.kind \in {"backspace", "delete"} /\ has_selection(Ed))
          => /\ ~get_selected_text_throws(Ed)
             /\ ~crashed'
             /\ LET back == insert_text(EdAfter, get_selected_text(Ed))
                IN  /\ back.lines = Ed.lines
                    /\ back.cursor = SelEnd(Ed)]_vars

----------------------------------------------------------------------------

\* the scan stands inside the buffer: r is at most the line count and pos at
\* most the length of line r
ScanInBounds ==
    scan.pc = "scan"
        => /\ scan.r \in 0..Len(Ed.lines)
           /\ scan.r < Len(Ed.lines) => scan.pos \in 0..Len(Line(Ed, scan.r))

\* a pass of the loops moves the scan forward: to the next row, or in the
\* same row by at least the length of the query, which is not empty
ScanAdvances ==
    (scan.pc = "scan" /\ scan'.pc = "scan")
        => \/ scan'.r = scan.r + 1 /\ scan'.pos = 0
           \/ /\ scan'.r = scan.r
              /\ Len(search_query) > 0
              /\ scan'.pos >= scan.pos + Len(search_query)

\* the call with an empty query returns at once with no matches
EmptyQueryReturns ==
    (scan.pc = "idle" /\ search_query = <<>>)
        => scan'.pc = "done" /\ search_matches' = <<>>

\* C38: the match scan terminates for every buffer and every query: with a
\* non-empty query each pass moves the scan position forward by the length
\* of the query, inside the buffer, and an empty query returns at once with
\* no matches; the scan always reaches its return, with the matches
\* update_search_matches gives.
C38_ScanTerminates ==
    /\ <>(scan.pc = "done")
    /\ [][ScanAdvances /\ EmptyQueryReturns]_vars
    /\ [](ScanInBounds)
    /\ [](scan.pc = "done" => search_matches = update_search_matches(Ed, search_query))

\* C38 witness: the scan of "aaa", "abab" for "a" returned with the five
\* matches, the last at (1,2), and the stale match it started with is gone.
C38_Witness ==
    /\ scan.pc = "done"
    /\ Ed.lines = << <<"a", "a", "a">>, <<"a", "b", "a", "b">> >>
    /\ search_query = <<"a">>
    /\ search_matches = <<Cursor(0, 0), Cursor(0, 1), Cursor(0, 2), Cursor(1, 0), Cursor(1, 2)>>

====
